---- MODULE Spec2Model ----
(***************************************************************************)
(* kube-guard backend: the RBAC service (who_can, get_all_bindings,         *)
(* fetch_rules_for_role) over a snapshot of the cluster's Roles,           *)
(* ClusterRoles, RoleBindings and ClusterRoleBindings, as returned by the  *)
(* Kubernetes API client, and the correlation service over the cluster's   *)
(* workloads, the vulnerability reports and the RBAC findings.             *)
(*                                                                         *)
(* Python's Optional values are modelled as sequences of length 0 or 1:    *)
(* None is <<>> and a present value v is <<v>>.                            *)
(***************************************************************************)
EXTENDS Integers, Sequences, FiniteSets, TLC

VARIABLES roles, cluster_roles, role_bindings, cluster_role_bindings,
          workloads, trivy_reports, rbac_findings, call, result,
          files, environ, requests, tool_output, patch_status, jobs

vars == <<roles, cluster_roles, role_bindings, cluster_role_bindings,
          workloads, trivy_reports, rbac_findings, call, result,
          files, environ, requests, tool_output, patch_status, jobs>>

\* what the RBAC listings return
rbac_objects == <<roles, cluster_roles, role_bindings, cluster_role_bindings>>

\* what the workload listings, the vulnerability provider and the RBAC
\* analysis return
risk_objects == <<workloads, trivy_reports, rbac_findings>>

\* the file system and the environment of the backend process, the requests
\* it is serving and what rbac-tool prints for a subject
process_state == <<files, environ, requests, tool_output>>

\* the status patch of the ScanRequest being handled and the Jobs created
operator_state == <<patch_status, jobs>>

snapshot == <<rbac_objects, risk_objects, process_state, operator_state>>

(***************************************************************************)
(* Optional values and Python truthiness                                   *)
(***************************************************************************)
None == <<>>

Some(v) == <<v>>

IsNone(o) == o = <<>>

Val(o) == o[1]

\* `o or d` for an optional string: None and "" are falsy
OrStr(o, d) == IF IsNone(o) \/ Val(o) = "" THEN d ELSE Val(o)

\* `o or []` for an optional list held as a set of strings
OrSet(o) == IF IsNone(o) THEN {} ELSE Val(o)

\* `o or []` for an optional list held as a sequence
OrSeq(o) == IF IsNone(o) THEN <<>> ELSE Val(o)

\* `if o:` for an optional string
TruthyStr(o) == ~IsNone(o) /\ Val(o) # ""

\* `if o:` for an optional list
TruthySeq(o) == ~IsNone(o) /\ Val(o) # <<>>

\* getattr(obj, field, default): the default is used only when the object
\* has no such attribute; an attribute holding None is returned as None.
Getattr(obj, field, default) == IF field \in DOMAIN obj THEN obj[field] ELSE default

RECURSIVE Flatten(_)
Flatten(ss) == IF ss = <<>> THEN <<>> ELSE Head(ss) \o Flatten(Tail(ss))

MapSeq(s, F(_)) == [i \in 1..Len(s) |-> F(s[i])]

(***************************************************************************)
(* The cluster objects the snapshots are drawn from                        *)
(***************************************************************************)
\* the most RoleBindings / ClusterRoleBindings in one snapshot
MaxRB == 2

MaxCRB == 1

RbacApiGroup == "rbac.authorization.k8s.io"

Namespaces == {"ns1", "ns2"}

Verbs == {"get", "delete"}

Resources == {"pods", "secrets"}

Rule(verbs, resources) ==
    [verbs |-> Some(verbs), resources |-> resources, api_groups |-> Some({""})]

Subject(kind, name, namespace, api_group) ==
    [kind |-> kind, name |-> name, namespace |-> namespace, api_group |-> api_group]

User == Subject("User", "alice", None, Some(RbacApiGroup))

Group == Subject("Group", "devs", None, Some(RbacApiGroup))

\* a ServiceAccount subject that names its namespace
SaKubeSystem == Subject("ServiceAccount", "sa", Some("kube-system"), None)

\* a ServiceAccount subject with no explicit namespace
SaNoNamespace == Subject("ServiceAccount", "builder", None, None)

\* role.rules of a Role/ClusterRole: None, empty, or a list of rules
RuleLists ==
    { None,
      Some(<<>>),
      Some(<<Rule({"*"}, Some({"*"}))>>),
      Some(<<Rule({"*"}, None), Rule({"get"}, Some({"pods"}))>>),
      Some(<<Rule({"*"}, Some({"secrets"})), Rule({"get", "list"}, Some({"*"}))>>) }

RoleObj(namespace, name, rules) ==
    [name |-> name, namespace |-> namespace, rules |-> rules]

RoleRef(kind, name) == [kind |-> kind, name |-> name, api_group |-> Some(RbacApiGroup)]

BindingObj(namespace, name, role_ref, subjects) ==
    [name |-> name, namespace |-> namespace, role_ref |-> role_ref, subjects |-> subjects]

RoleBindingPool ==
    { BindingObj(Some("ns1"), "rb-a", RoleRef("Role", "r1"), Some(<<User>>)),
      BindingObj(Some("ns1"), "rb-b", RoleRef("ClusterRole", "r1"), Some(<<SaKubeSystem, User>>)),
      BindingObj(Some("ns2"), "rb-a", RoleRef("Role", "r1"), Some(<<SaNoNamespace, Group>>)),
      BindingObj(Some("ns2"), "rb-b", RoleRef("ClusterRole", "r1"), None) }

ClusterRoleBindingPool ==
    { BindingObj(None, "crb-a", RoleRef("ClusterRole", "r1"), Some(<<SaKubeSystem, User>>)),
      BindingObj(None, "crb-b", RoleRef("ClusterRole", "r1"), None) }

\* the sequences of at most n distinct elements of S
InjSeqs(S, n) ==
    UNION { { s \in [1..k -> S] : \A i, j \in 1..k : i # j => s[i] # s[j] } : k \in 0..n }

\* the Roles of the cluster: r1 in ns1 (any rule list) and r1 in ns2, each optional
RoleLists ==
    { r1 \o r2 :
        r1 \in {<<>>} \cup { <<RoleObj(Some("ns1"), "r1", rl)>> : rl \in RuleLists },
        r2 \in {<<>>, <<RoleObj(Some("ns2"), "r1", Some(<<Rule({"*"}, Some({"*"}))>>))>>} }

ClusterRoleLists ==
    {<<>>} \cup { <<RoleObj(None, "r1", rl)>> : rl \in RuleLists }

(***************************************************************************)
(* Kubernetes API listings over the snapshot                               *)
(***************************************************************************)
InNamespace(objs, namespace) == SelectSeq(objs, LAMBDA o : o.namespace = Some(namespace))

\* next((r for r in rs if r.metadata.name == name), None)
FindRole(rs, name) ==
    LET hits == { i \in 1..Len(rs) : rs[i].name = name }
    IN  IF hits = {} THEN None
        ELSE Some(rs[CHOOSE i \in hits : \A j \in hits : i <= j])

(***************************************************************************)
(* who_can                                                                 *)
(***************************************************************************)
\* rule_matches with the verb and resource tests joined by `or`
rule_matches_either(rule, verb, resource) ==
    LET verbs == OrSet(rule.verbs)
        resources == OrSet(rule.resources)
    IN  (verb \in verbs \/ "*" \in verbs) \/ (resource \in resources \/ "*" \in resources)

\* one rule of matches_rule's loop
rule_matches(rule, verb, resource) ==
    LET verbs == OrSet(rule.verbs)
        resources == OrSet(rule.resources)
    IN  (verb \in verbs \/ "*" \in verbs) /\ (resource \in resources \/ "*" \in resources)

\* matches_rule(rules, verb, resource) on a rule list that can be iterated
matches_rule(rules, verb, resource) ==
    \E i \in 1..Len(rules) : rule_matches(rules[i], verb, resource)

\* `for rule in rules` raises TypeError when role.rules is None
matches_rule_raises(rules) == IsNone(rules)

Skip == [raised |-> FALSE, out |-> <<>>]

Raise == [raised |-> TRUE, out |-> <<>>]

Emit(entries) == [raised |-> FALSE, out |-> entries]

\* one iteration of the RoleBinding loop
rb_step(rb, rs, crs, verb, resource) ==
    LET role_name == rb.role_ref.name
        role_kind == rb.role_ref.kind
        role == IF role_kind = "Role" THEN FindRole(rs, role_name)
                ELSE FindRole(crs, role_name)
    IN  IF role_kind \notin {"Role", "ClusterRole"} THEN Skip
        ELSE IF IsNone(role) THEN Skip
        ELSE IF matches_rule_raises(Val(role).rules) THEN Raise
        ELSE IF ~matches_rule(Val(Val(role).rules), verb, resource) THEN Skip
        ELSE IF ~TruthySeq(rb.subjects) THEN Skip
        ELSE Emit(MapSeq(Val(rb.subjects), LAMBDA s :
                 [subject |-> s.kind \o "/" \o s.name,
                  namespace |-> Val(rb.namespace),
                  role |-> role_kind \o "/" \o role_name]))

\* crb_step that reports "cluster-wide" without reading the subject's namespace
crb_step_sentinel(crb, crs, verb, resource) ==
    LET cr == FindRole(crs, crb.role_ref.name)
    IN  IF IsNone(cr) THEN Skip
        ELSE IF matches_rule_raises(Val(cr).rules) THEN Raise
        ELSE IF ~matches_rule(Val(Val(cr).rules), verb, resource) THEN Skip
        ELSE IF ~TruthySeq(crb.subjects) THEN Skip
        ELSE Emit(MapSeq(Val(crb.subjects), LAMBDA s :
                 [subject |-> s.kind \o "/" \o s.name,
                  namespace |-> "cluster-wide",
                  role |-> crb.role_ref.kind \o "/" \o crb.role_ref.name]))

\* one iteration of the ClusterRoleBinding loop
crb_step(crb, crs, verb, resource) ==
    LET cr == FindRole(crs, crb.role_ref.name)
    IN  IF IsNone(cr) THEN Skip
        ELSE IF matches_rule_raises(Val(cr).rules) THEN Raise
        ELSE IF ~matches_rule(Val(Val(cr).rules), verb, resource) THEN Skip
        ELSE IF ~TruthySeq(crb.subjects) THEN Skip
        ELSE Emit(MapSeq(Val(crb.subjects), LAMBDA s :
                 [subject |-> s.kind \o "/" \o s.name,
                  namespace |-> OrStr(Getattr(s, "namespace", None), "cluster-wide"),
                  role |-> crb.role_ref.kind \o "/" \o crb.role_ref.name]))

\* who_can_steps with the ClusterRoleBinding loop placed first
who_can_steps_cluster_first(rbs, crbs, rs, crs, verb, resource) ==
    MapSeq(crbs, LAMBDA crb : crb_step(crb, crs, verb, resource))
    \o MapSeq(rbs, LAMBDA rb : rb_step(rb, rs, crs, verb, resource))

\* the RoleBinding loop runs first, then the ClusterRoleBinding loop
who_can_steps(rbs, crbs, rs, crs, verb, resource) ==
    MapSeq(rbs, LAMBDA rb : rb_step(rb, rs, crs, verb, resource))
    \o MapSeq(crbs, LAMBDA crb : crb_step(crb, crs, verb, resource))

\* who_can(verb, resource, namespace) over the listings all_rbs, all_crbs,
\* all_rs, all_crs of the cluster: the list returned, or the TypeError raised
who_can_on(all_rbs, all_crbs, all_rs, all_crs, verb, resource, namespace) ==
    LET rbs == IF TruthyStr(namespace) THEN InNamespace(all_rbs, Val(namespace)) ELSE <<>>
        crbs == all_crbs
        rs == IF TruthyStr(namespace) THEN InNamespace(all_rs, Val(namespace)) ELSE <<>>
        crs == all_crs
        steps == who_can_steps(rbs, crbs, rs, crs, verb, resource)
    IN  IF \E i \in 1..Len(steps) : steps[i].raised
        THEN [status |-> "TypeError", value |-> <<>>]
        ELSE [status |-> "ok", value |-> Flatten(MapSeq(steps, LAMBDA st : st.out))]

who_can(verb, resource, namespace) ==
    who_can_on(role_bindings, cluster_role_bindings, roles, cluster_roles,
               verb, resource, namespace)

(***************************************************************************)
(* get_all_bindings and the /bindings handler                              *)
(***************************************************************************)
crb_subject(s) ==
    [kind |-> s.kind, name |-> s.name, apiGroup |-> OrStr(s.api_group, ""),
     namespace |-> Getattr(s, "namespace", None)]

rb_subject(s, binding_namespace) ==
    [kind |-> s.kind, name |-> s.name, apiGroup |-> OrStr(s.api_group, ""),
     namespace |-> Getattr(s, "namespace",
                           IF s.kind = "ServiceAccount" THEN binding_namespace ELSE None)]

crb_binding(crb, id) ==
    [id |-> id, name |-> crb.name, kind |-> "ClusterRoleBinding",
     subjects |-> MapSeq(OrSeq(crb.subjects), crb_subject),
     roleRef |-> [kind |-> crb.role_ref.kind, name |-> crb.role_ref.name,
                  apiGroup |-> crb.role_ref.api_group, namespace |-> None]]

\* rb_binding that gives every roleRef the binding's namespace
rb_binding_always_namespace(rb, id) ==
    LET binding_namespace == rb.namespace
    IN  [id |-> id, name |-> rb.name, kind |-> "RoleBinding",
         subjects |-> MapSeq(OrSeq(rb.subjects), LAMBDA s : rb_subject(s, binding_namespace)),
         roleRef |-> [kind |-> rb.role_ref.kind, name |-> rb.role_ref.name,
                      apiGroup |-> rb.role_ref.api_group,
                      namespace |-> binding_namespace]]

rb_binding(rb, id) ==
    LET binding_namespace == rb.namespace
    IN  [id |-> id, name |-> rb.name, kind |-> "RoleBinding",
         subjects |-> MapSeq(OrSeq(rb.subjects), LAMBDA s : rb_subject(s, binding_namespace)),
         roleRef |-> [kind |-> rb.role_ref.kind, name |-> rb.role_ref.name,
                      apiGroup |-> rb.role_ref.api_group,
                      namespace |-> IF rb.role_ref.kind = "Role" THEN binding_namespace
                                    ELSE None]]

\* get_all_bindings that lists the RoleBindings of one namespace only
get_all_bindings_one_namespace(crb_forbidden, rb_forbidden) ==
    LET crbs == IF crb_forbidden THEN <<>> ELSE cluster_role_bindings
        rbs == IF rb_forbidden THEN <<>> ELSE InNamespace(role_bindings, "ns1")
    IN  [i \in 1..Len(crbs) |-> crb_binding(crbs[i], i - 1)]
        \o [i \in 1..Len(rbs) |-> rb_binding(rbs[i], Len(crbs) + i - 1)]

\* get_all_bindings that gives up when a listing is forbidden
get_all_bindings_abort(crb_forbidden, rb_forbidden) ==
    LET crbs == cluster_role_bindings
        rbs == role_bindings
    IN  IF crb_forbidden \/ rb_forbidden THEN <<>>
        ELSE [i \in 1..Len(crbs) |-> crb_binding(crbs[i], i - 1)]
             \o [i \in 1..Len(rbs) |-> rb_binding(rbs[i], Len(crbs) + i - 1)]

\* get_all_bindings that numbers the RoleBindings from 0 again
get_all_bindings_restart_ids(crb_forbidden, rb_forbidden) ==
    LET crbs == IF crb_forbidden THEN <<>> ELSE cluster_role_bindings
        rbs == IF rb_forbidden THEN <<>> ELSE role_bindings
    IN  [i \in 1..Len(crbs) |-> crb_binding(crbs[i], i - 1)]
        \o [i \in 1..Len(rbs) |-> rb_binding(rbs[i], i - 1)]

\* get_all_bindings(): crb_forbidden / rb_forbidden say whether the listing
\* raised ApiException, in which case the list is taken as empty
get_all_bindings(crb_forbidden, rb_forbidden) ==
    LET crbs == IF crb_forbidden THEN <<>> ELSE cluster_role_bindings
        rbs == IF rb_forbidden THEN <<>> ELSE role_bindings
    IN  [i \in 1..Len(crbs) |-> crb_binding(crbs[i], i - 1)]
        \o [i \in 1..Len(rbs) |-> rb_binding(rbs[i], Len(crbs) + i - 1)]

\* list_bindings that narrows the RoleBindings to the namespace of the request
list_bindings_namespaced(namespace, crb_forbidden, rb_forbidden) ==
    LET crbs == IF crb_forbidden THEN <<>> ELSE cluster_role_bindings
        all == IF rb_forbidden THEN <<>> ELSE role_bindings
        rbs == IF TruthyStr(namespace) THEN InNamespace(all, Val(namespace)) ELSE all
    IN  [i \in 1..Len(crbs) |-> crb_binding(crbs[i], i - 1)]
        \o [i \in 1..Len(rbs) |-> rb_binding(rbs[i], Len(crbs) + i - 1)]

\* GET /rbac/bindings: the handler declares no parameter, a namespace sent
\* with the request is not read
list_bindings(namespace, crb_forbidden, rb_forbidden) ==
    get_all_bindings(crb_forbidden, rb_forbidden)

(***************************************************************************)
(* fetch_rules_for_role                                                    *)
(***************************************************************************)
\* r.to_dict() of a client rule: the keys are the client's attribute names
to_dict(r) == [verbs |-> r.verbs, resources |-> r.resources, api_groups |-> r.api_groups]

\* K8sPolicyRule(**d): each field is taken from the key of its own name, a
\* key that is no field is ignored and a field without a key gets its default []
K8sPolicyRule(d) ==
    [verbs |-> d.verbs,
     apiGroups |-> Getattr(d, "apiGroups", Some({})),
     resources |-> Getattr(d, "resources", Some({}))]

Raised(error, reads) == [status |-> error, value |-> <<>>, reads |-> reads]

\* read_cluster_role(name) / read_namespaced_role(name, namespace): the role
\* read from rs, or the ApiException of the 404 answer; one read either way
read_role(rs, name) ==
    LET role == FindRole(rs, name)
    IN  IF IsNone(role) THEN Raised("ApiException", 1)
        ELSE [status |-> "ok",
              value |-> MapSeq(OrSeq(Val(role).rules), LAMBDA r : K8sPolicyRule(to_dict(r))),
              reads |-> 1]

\* fetch_rules_for_role that reads the Role before it looks at the namespace
fetch_rules_for_role_reads_first(role_name, kind, namespace) ==
    IF kind = "ClusterRole" THEN read_role(cluster_roles, role_name)
    ELSE IF kind = "Role"
    THEN LET got == read_role(InNamespace(roles, OrStr(namespace, "")), role_name)
         IN  IF ~TruthyStr(namespace) THEN Raised("ValueError", 1) ELSE got
    ELSE Raised("ValueError", 0)

\* fetch_rules_for_role that answers a missing role with an empty list
fetch_rules_for_role_missing_is_empty(role_name, kind, namespace) ==
    LET quiet(got) == IF got.status = "ok" THEN got
                      ELSE [status |-> "ok", value |-> <<>>, reads |-> got.reads]
    IN  IF kind = "ClusterRole" THEN quiet(read_role(cluster_roles, role_name))
        ELSE IF kind = "Role"
        THEN IF ~TruthyStr(namespace) THEN Raised("ValueError", 0)
             ELSE quiet(read_role(InNamespace(roles, Val(namespace)), role_name))
        ELSE Raised("ValueError", 0)

\* fetch_rules_for_role(role_name, kind, namespace): the rules returned or
\* the error raised, and the number of reads sent to the cluster
fetch_rules_for_role(role_name, kind, namespace) ==
    IF kind = "ClusterRole" THEN read_role(cluster_roles, role_name)
    ELSE IF kind = "Role"
    THEN IF ~TruthyStr(namespace) THEN Raised("ValueError", 0)
         ELSE read_role(InNamespace(roles, Val(namespace)), role_name)
    ELSE Raised("ValueError", 0)

(***************************************************************************)
(* Specification                                                           *)
(***************************************************************************)
Idle == [status |-> "none", value |-> <<>>]

NoCall ==
    [op |-> "none", verb |-> "", resource |-> "", namespace |-> None,
     crb_forbidden |-> FALSE, rb_forbidden |-> FALSE, repeated |-> FALSE, first |-> Idle]

NamespaceArgs == {None} \cup { Some(n) : n \in Namespaces }

NoWorkloads == [pods |-> <<>>, replica_sets |-> <<>>, deployments |-> <<>>]

\* a cluster without workloads, vulnerability reports and RBAC findings
NoRiskObjects ==
    /\ workloads = NoWorkloads
    /\ trivy_reports = <<>>
    /\ rbac_findings = <<>>

\* a backend process outside a pod that has served nothing yet
NoProcess ==
    /\ files = [serviceaccount |-> FALSE, kubeconfig |-> "absent"]
    /\ environ = [KUBECONFIG |-> None]
    /\ requests = <<>>
    /\ tool_output = <<>>

\* an operator that handled no ScanRequest yet
NoOperator ==
    /\ patch_status = [phase |-> None, startedAt |-> None, message |-> None]
    /\ jobs = <<>>

Init ==
    /\ roles \in RoleLists
    /\ cluster_roles \in ClusterRoleLists
    /\ role_bindings \in InjSeqs(RoleBindingPool, MaxRB)
    /\ cluster_role_bindings \in InjSeqs(ClusterRoleBindingPool, MaxCRB)
    /\ NoRiskObjects
    /\ call = NoCall
    /\ result = Idle
    /\ NoProcess
    /\ NoOperator

\* GET /rbac/who-can
WhoCan ==
    \E verb \in Verbs, resource \in Resources, namespace \in NamespaceArgs :
        /\ call = NoCall
        /\ call' = [NoCall EXCEPT !.op = "who_can", !.verb = verb,
                                  !.resource = resource, !.namespace = namespace]
        /\ result' = who_can(verb, resource, namespace)
        /\ UNCHANGED snapshot

\* the same who-can request sent a second time
WhoCanAgain ==
    /\ call.op = "who_can"
    /\ ~call.repeated
    /\ call' = [call EXCEPT !.repeated = TRUE, !.first = result]
    /\ result' = who_can(call.verb, call.resource, call.namespace)
    /\ UNCHANGED snapshot

GetAllBindings ==
    \E crb_forbidden \in BOOLEAN, rb_forbidden \in BOOLEAN :
        /\ call = NoCall
        /\ call' = [NoCall EXCEPT !.op = "get_all_bindings",
                                  !.crb_forbidden = crb_forbidden,
                                  !.rb_forbidden = rb_forbidden]
        /\ result' = [status |-> "ok", value |-> get_all_bindings(crb_forbidden, rb_forbidden)]
        /\ UNCHANGED snapshot

\* GET /rbac/bindings, with or without a namespace in the query string
ListBindings ==
    \E namespace \in NamespaceArgs, crb_forbidden \in BOOLEAN, rb_forbidden \in BOOLEAN :
        /\ call = NoCall
        /\ call' = [NoCall EXCEPT !.op = "list_bindings", !.namespace = namespace,
                                  !.crb_forbidden = crb_forbidden,
                                  !.rb_forbidden = rb_forbidden]
        /\ result' = [status |-> "ok",
                      value |-> list_bindings(namespace, crb_forbidden, rb_forbidden)]
        /\ UNCHANGED snapshot

Next == WhoCan \/ WhoCanAgain \/ GetAllBindings \/ ListBindings

Spec == Init /\ [][Next]_vars

(***************************************************************************)
(* Specification of the role lookup                                        *)
(***************************************************************************)
RoleNames == {"r1", "ghost"}

RoleKinds == {"Role", "ClusterRole", "Binding"}

\* the namespace of a /rbac/roles request: omitted, empty or a namespace
RoleNamespaceArgs == NamespaceArgs \cup {Some("")}

InitRoles ==
    /\ roles \in RoleLists
    /\ cluster_roles \in ClusterRoleLists
    /\ role_bindings = <<>>
    /\ cluster_role_bindings = <<>>
    /\ NoRiskObjects
    /\ call = NoCall
    /\ result = Idle
    /\ NoProcess
    /\ NoOperator

\* GET /rbac/roles
FetchRulesForRole ==
    \E role_name \in RoleNames, kind \in RoleKinds, namespace \in RoleNamespaceArgs :
        /\ call = NoCall
        /\ call' = [op |-> "fetch_rules_for_role", role_name |-> role_name,
                    kind |-> kind, namespace |-> namespace]
        /\ result' = fetch_rules_for_role(role_name, kind, namespace)
        /\ UNCHANGED snapshot

NextRoles == FetchRulesForRole

RoleSpec == InitRoles /\ [][NextRoles]_vars

(***************************************************************************)
(* Strings                                                                 *)
(***************************************************************************)
UpperCase == "ABCDEFGHIJKLMNOPQRSTUVWXYZ"

LowerCase == "abcdefghijklmnopqrstuvwxyz"

Char(s, i) == SubSeq(s, i, i)

\* the table that takes each letter of `from` to the letter of `to` at its place
Table(from, to) ==
    [c \in { Char(from, i) : i \in 1..Len(from) } |->
        Char(to, CHOOSE i \in 1..Len(from) : Char(from, i) = c)]

ToLower == Table(UpperCase, LowerCase)

ToUpper == Table(LowerCase, UpperCase)

\* the letter the table has for c, c itself when it has none
Translate(c, table) == IF c \in DOMAIN table THEN table[c] ELSE c

RECURSIVE lower(_)
\* str.lower()
lower(s) ==
    IF s = "" THEN ""
    ELSE Translate(Char(s, 1), ToLower) \o lower(SubSeq(s, 2, Len(s)))

RECURSIVE upper(_)
\* str.upper()
upper(s) ==
    IF s = "" THEN ""
    ELSE Translate(Char(s, 1), ToUpper) \o upper(SubSeq(s, 2, Len(s)))

\* `t in s` for two strings
Contains(t, s) == \E i \in 0..(Len(s) - Len(t)) : SubSeq(s, i + 1, i + Len(t)) = t

\* s.split("-", 1): the one or two pieces around the first "-"
split_once(s) ==
    LET dashes == { i \in 1..Len(s) : Char(s, i) = "-" }
    IN  IF dashes = {} THEN <<s>>
        ELSE LET d == CHOOSE i \in dashes : \A j \in dashes : i <= j
             IN  <<SubSeq(s, 1, d - 1), SubSeq(s, d + 1, Len(s))>>

(***************************************************************************)
(* get_service_account_for_resource                                        *)
(***************************************************************************)
\* a Pod, ReplicaSet or Deployment: metadata.name, metadata.namespace and the
\* service_account_name of its (template's) spec
Workload(namespace, name, service_account_name) ==
    [namespace |-> Some(namespace), name |-> name,
     service_account_name |-> service_account_name]

\* the attribute of the cluster that list_namespaced_<kind> reads
ListingOf(kind) ==
    IF kind = "pod" THEN workloads.pods
    ELSE IF kind = "replicaset" THEN workloads.replica_sets
    ELSE workloads.deployments

\* for w in listing: if w.metadata.name in report_name: return its account
first_match(listing, report_name) ==
    LET hits == { i \in 1..Len(listing) : Contains(listing[i].name, report_name) }
    IN  IF hits = {} THEN None
        ELSE listing[CHOOSE i \in hits : \A j \in hits : i <= j].service_account_name

Found(value, listed) == [status |-> "ok", value |-> value, listed |-> listed]

\* get_service_account_for_resource that takes the workload named as the rest
\* of the report name
get_service_account_for_resource_by_name(namespace, report_name, list_fails) ==
    LET parts == split_once(report_name)
    IN  IF Len(parts) < 2 THEN [status |-> "ValueError", value |-> None, listed |-> <<>>]
        ELSE LET kind == lower(parts[1])
             IN  IF kind \notin {"pod", "replicaset", "deployment"} THEN Found(None, <<>>)
                 ELSE LET listed == <<[kind |-> kind, namespace |-> namespace]>>
                          same == SelectSeq(InNamespace(ListingOf(kind), namespace),
                                            LAMBDA w : w.name = parts[2])
                      IN  IF list_fails \/ same = <<>> THEN Found(None, listed)
                          ELSE Found(same[1].service_account_name, listed)

\* get_service_account_for_resource(namespace, report_name): the account
\* returned or the error raised, and the listings asked of the cluster;
\* list_fails says that the listing raises
get_service_account_for_resource(namespace, report_name, list_fails) ==
    LET parts == split_once(report_name)
    IN  IF Len(parts) < 2 THEN [status |-> "ValueError", value |-> None, listed |-> <<>>]
        ELSE LET kind == lower(parts[1])
             IN  IF kind \notin {"pod", "replicaset", "deployment"} THEN Found(None, <<>>)
                 ELSE LET listed == <<[kind |-> kind, namespace |-> namespace]>>
                      IN  IF list_fails THEN Found(None, listed)
                          ELSE Found(first_match(InNamespace(ListingOf(kind), namespace),
                                                 report_name), listed)

(***************************************************************************)
(* Specification of the ServiceAccount lookup                              *)
(***************************************************************************)
\* the most Deployments in one cluster
MaxListed == 2

WorkloadNamespaces == {"prod", "dev"}

DeploymentPool ==
    { Workload("prod", "web", Some("web-sa")),
      Workload("prod", "myapp", Some("myapp-sa")),
      Workload("prod", "eb", None),
      Workload("dev", "web", Some("dev-sa")) }

PodLists ==
    { <<>>,
      <<Workload("prod", "web", Some("default"))>>,
      <<Workload("prod", "we", Some("")), Workload("prod", "web", Some("pod-sa"))>> }

ReplicaSetLists ==
    { <<>>,
      <<Workload("dev", "myapp-abc123", Some("rs-sa"))>>,
      <<Workload("prod", "myapp-abc123", Some("myapp-sa")), Workload("prod", "web", None)>> }

ReportNames ==
    { "deployment-web", "deployment-myapp-abc123", "Deployment-web", "POD-web",
      "replicaset-myapp-abc123", "job-web", "nodash", "-web" }

InitWorkloads ==
    /\ roles = <<>>
    /\ cluster_roles = <<>>
    /\ role_bindings = <<>>
    /\ cluster_role_bindings = <<>>
    /\ workloads \in { [pods |-> p, replica_sets |-> r, deployments |-> d] :
                         p \in PodLists, r \in ReplicaSetLists,
                         d \in InjSeqs(DeploymentPool, MaxListed) }
    /\ trivy_reports = <<>>
    /\ rbac_findings = <<>>
    /\ call = NoCall
    /\ result = Idle
    /\ NoProcess
    /\ NoOperator

GetServiceAccountForResource ==
    \E namespace \in WorkloadNamespaces, report_name \in ReportNames, list_fails \in BOOLEAN :
        /\ call = NoCall
        /\ call' = [op |-> "get_service_account_for_resource", namespace |-> namespace,
                    report_name |-> report_name, list_fails |-> list_fails]
        /\ result' = get_service_account_for_resource(namespace, report_name, list_fails)
        /\ UNCHANGED snapshot

NextWorkloads == GetServiceAccountForResource

SaSpec == InitWorkloads /\ [][NextWorkloads]_vars

(***************************************************************************)
(* get_trivy_reports and run_rbac_analysis                                 *)
(***************************************************************************)
SEVERITY_MAP == [UNKNOWN |-> 0, LOW |-> 1, MEDIUM |-> 2, HIGH |-> 3, CRITICAL |-> 4]

\* sum(1 for f in findings if f.severity == sev)
CountOf(findings, sev) == Cardinality({ i \in 1..Len(findings) : findings[i] = sev })

\* severity_map.get(sev, 0)
SeverityIndex(sev) == IF sev \in DOMAIN SEVERITY_MAP THEN SEVERITY_MAP[sev] ELSE 0

\* trivy_report that keeps every finding of a known severity
trivy_report_any_severity(item, min_severity_index) ==
    LET findings == SelectSeq(MapSeq(item.vulnerabilities, upper),
                              LAMBDA sev : sev \in DOMAIN SEVERITY_MAP)
    IN  IF findings = <<>> THEN <<>>
        ELSE << [resource |-> item.name,
                 namespace |-> Val(item.namespace),
                 image |-> Getattr(item.artifact, "repository", "") \o ":"
                               \o Getattr(item.artifact, "tag", ""),
                 summary |-> [critical |-> CountOf(findings, "CRITICAL"),
                              high |-> CountOf(findings, "HIGH"),
                              medium |-> CountOf(findings, "MEDIUM"),
                              low |-> CountOf(findings, "LOW"),
                              unknown |-> CountOf(findings, "UNKNOWN")],
                 vulnerabilities |-> findings] >>

\* the TrivyReport built from one VulnerabilityReport item, in a list of its
\* own, or no report when none of its vulnerabilities is kept
trivy_report(item, min_severity_index) ==
    LET findings == SelectSeq(MapSeq(item.vulnerabilities, upper),
                              LAMBDA sev : /\ sev \in DOMAIN SEVERITY_MAP
                                           /\ SEVERITY_MAP[sev] >= min_severity_index)
    IN  IF findings = <<>> THEN <<>>
        ELSE << [resource |-> item.name,
                 namespace |-> Val(item.namespace),
                 image |-> Getattr(item.artifact, "repository", "") \o ":"
                               \o Getattr(item.artifact, "tag", ""),
                 summary |-> [critical |-> CountOf(findings, "CRITICAL"),
                              high |-> CountOf(findings, "HIGH"),
                              medium |-> CountOf(findings, "MEDIUM"),
                              low |-> CountOf(findings, "LOW"),
                              unknown |-> CountOf(findings, "UNKNOWN")],
                 vulnerabilities |-> findings] >>

\* get_trivy_reports(namespace, min_severity)
get_trivy_reports(namespace, min_severity) ==
    LET items == IF TruthyStr(namespace) THEN InNamespace(trivy_reports, Val(namespace))
                 ELSE trivy_reports
    IN  Flatten(MapSeq(items, LAMBDA item : trivy_report(item, SeverityIndex(upper(min_severity)))))

\* run_rbac_analysis(): the findings of the tool, none when the tool fails
run_rbac_analysis(tool_fails) == IF tool_fails THEN <<>> ELSE rbac_findings

(***************************************************************************)
(* correlate_risks                                                         *)
(***************************************************************************)
RISK_ORDER == <<"LOW", "MEDIUM", "HIGH", "CRITICAL">>

\* RISK_ORDER.index(sev), counted from 1
RiskIndex(sev) == CHOOSE i \in 1..Len(RISK_ORDER) : RISK_ORDER[i] = sev

RECURSIVE first_hit_down(_, _)
\* for sev in reversed(RISK_ORDER)[..i]: if hit(sev): return sev; return "LOW"
first_hit_down(i, hit) ==
    IF i = 0 THEN "LOW"
    ELSE IF RISK_ORDER[i] \in hit THEN RISK_ORDER[i]
    ELSE first_hit_down(i - 1, hit)

\* _max_severity that stops at the first tier, from LOW up, with a count
_max_severity_lowest(summary) ==
    LET hit == { i \in 1..Len(RISK_ORDER) : Getattr(summary, lower(RISK_ORDER[i]), 0) > 0 }
    IN  IF hit = {} THEN "LOW" ELSE RISK_ORDER[CHOOSE i \in hit : \A j \in hit : i <= j]

\* _max_severity(summary)
_max_severity(summary) ==
    first_hit_down(Len(RISK_ORDER),
                   { RISK_ORDER[i] : i \in { k \in 1..Len(RISK_ORDER) :
                         Getattr(summary, lower(RISK_ORDER[k]), 0) > 0 } })

\* _max_rbac_severity that compares the severities as they are written
_max_rbac_severity_as_written(findings) ==
    first_hit_down(Len(RISK_ORDER), { findings[i].Severity : i \in 1..Len(findings) })

\* _max_rbac_severity(findings)
_max_rbac_severity(findings) ==
    first_hit_down(Len(RISK_ORDER), { upper(findings[i].Severity) : i \in 1..Len(findings) })

\* _combine_risk that lets the RBAC severity win
_combine_risk_second(trivy_sev, rbac_sev) == rbac_sev

\* _combine_risk(trivy_sev, rbac_sev)
_combine_risk(trivy_sev, rbac_sev) ==
    LET a == RiskIndex(trivy_sev)
        b == RiskIndex(rbac_sev)
    IN  RISK_ORDER[IF a >= b THEN a ELSE b]

UpdateImageTip ==
    "Update the container image to the recommended fixed version to address critical vulnerabilities."

RestrictTip ==
    "Restrict the privileges of the associated ServiceAccount using least privilege principles."

NoIssuesTip == "No critical issues found. No immediate action required."

PrioritizeTip == "This resource has a high combined risk. Prioritize mitigation."

\* generate_remediation_tip that puts the prioritize tip first
generate_remediation_tip_prioritize_first(resource, trivy_summary, findings, risk) ==
    LET urgent == IF risk = "CRITICAL" THEN <<PrioritizeTip>> ELSE <<>>
        update == IF Getattr(trivy_summary, "critical", 0) > 0 THEN <<UpdateImageTip>> ELSE <<>>
        restrict == IF \E i \in 1..Len(findings) :
                           upper(findings[i].Severity) \in {"CRITICAL", "HIGH"}
                    THEN <<RestrictTip>> ELSE <<>>
    IN  urgent \o (IF update \o restrict = <<>> THEN <<NoIssuesTip>> ELSE update \o restrict)

\* generate_remediation_tip that falls back whenever no image is to update
generate_remediation_tip_fallback_without_update(resource, trivy_summary, findings, risk) ==
    LET update == IF Getattr(trivy_summary, "critical", 0) > 0 THEN <<UpdateImageTip>> ELSE <<>>
        restrict == IF \E i \in 1..Len(findings) :
                           upper(findings[i].Severity) \in {"CRITICAL", "HIGH"}
                    THEN <<RestrictTip>> ELSE <<>>
        fallback == IF update = <<>> THEN <<NoIssuesTip>> ELSE <<>>
    IN  update \o restrict \o fallback
            \o (IF risk = "CRITICAL" THEN <<PrioritizeTip>> ELSE <<>>)

\* generate_remediation_tip that has no tip about the ServiceAccount
generate_remediation_tip_without_restrict(resource, trivy_summary, findings, risk) ==
    LET tips == IF Getattr(trivy_summary, "critical", 0) > 0 THEN <<UpdateImageTip>> ELSE <<>>
        some == IF tips = <<>> THEN <<NoIssuesTip>> ELSE tips
    IN  some \o (IF risk = "CRITICAL" THEN <<PrioritizeTip>> ELSE <<>>)

\* generate_remediation_tip(resource, trivy_summary, rbac_findings, risk)
generate_remediation_tip(resource, trivy_summary, findings, risk) ==
    LET update == IF Getattr(trivy_summary, "critical", 0) > 0 THEN <<UpdateImageTip>> ELSE <<>>
        restrict == IF \E i \in 1..Len(findings) :
                           upper(findings[i].Severity) \in {"CRITICAL", "HIGH"}
                    THEN <<RestrictTip>> ELSE <<>>
        tips == update \o restrict
        some == IF tips = <<>> THEN <<NoIssuesTip>> ELSE tips
    IN  some \o (IF risk = "CRITICAL" THEN <<PrioritizeTip>> ELSE <<>>)

\* the condition of the matched_rbac comprehension that ignores the kind
subject_matches_any_kind(f, sa_name, namespace) ==
    /\ f.Subject.name = sa_name
    /\ (IsNone(f.Subject.namespace) \/ f.Subject.namespace = Some(namespace))

\* the condition of the matched_rbac comprehension
subject_matches(f, sa_name, namespace) ==
    /\ f.Subject.name = sa_name
    /\ f.Subject.kind \in {"ServiceAccount", "Group"}
    /\ (IsNone(f.Subject.namespace) \/ f.Subject.namespace = Some(namespace))

\* `matched_rbac or None` that keeps the empty list
or_none_keeps_empty(matched_rbac) == Some(matched_rbac)

\* `matched_rbac or None`
or_none(matched_rbac) == IF matched_rbac = <<>> THEN None ELSE Some(matched_rbac)

\* the CorrelatedRiskReport of one report and its ServiceAccount
correlated_report(report, sa_name, findings) ==
    LET matched_rbac == MapSeq(SelectSeq(findings,
                                   LAMBDA f : subject_matches(f, sa_name, report.namespace)),
                               LAMBDA f : f.Finding)
        overall == _combine_risk(_max_severity(report.summary), _max_rbac_severity(matched_rbac))
    IN  [resource |-> report.resource,
         namespace |-> report.namespace,
         image |-> report.image,
         service_account |-> sa_name,
         trivy_summary |-> report.summary,
         trivy_findings |-> report.vulnerabilities,
         rbac_findings |-> or_none(matched_rbac),
         overall_risk |-> overall,
         remediation_tip |-> generate_remediation_tip(report.resource, report.summary,
                                                       matched_rbac, overall)]

\* the turn of the loop that appends an entry for every report
correlate_one_keep_unresolved(report, findings, list_fails) ==
    LET sa_name == get_service_account_for_resource(report.namespace, report.resource,
                                                    list_fails).value
    IN  <<correlated_report(report, OrStr(sa_name, ""), findings)>>

\* one turn of the loop of correlate_risks: the entry appended, if any
correlate_one(report, findings, list_fails) ==
    LET sa_name == get_service_account_for_resource(report.namespace, report.resource,
                                                    list_fails).value
    IN  IF ~TruthyStr(sa_name) THEN <<>>
        ELSE <<correlated_report(report, Val(sa_name), findings)>>

\* correlate_risks(namespace): the reports returned, or the error that
\* get_service_account_for_resource raised for one of the reports
correlate_risks(namespace, tool_fails, list_fails) ==
    LET reports == get_trivy_reports(namespace, "LOW")
        findings == run_rbac_analysis(tool_fails)
        raises == \E i \in 1..Len(reports) :
                      get_service_account_for_resource(reports[i].namespace,
                          reports[i].resource, list_fails).status # "ok"
    IN  IF raises THEN [status |-> "ValueError", value |-> <<>>]
        ELSE [status |-> "ok",
              value |-> Flatten(MapSeq(reports,
                            LAMBDA report : correlate_one(report, findings, list_fails)))]

(***************************************************************************)
(* Specification of the risk correlation                                   *)
(***************************************************************************)
\* the most VulnerabilityReports in one cluster
MaxReports == 2

\* the highest count of one severity in a summary handed to a helper
MaxCount == 1

\* the most findings handed to a helper
MaxFindings == 2

\* a VulnerabilityReport: metadata.name, metadata.namespace, the severities
\* of report.vulnerabilities and report.artifact
VulnerabilityReport(namespace, name, severities, artifact) ==
    [namespace |-> Some(namespace), name |-> name,
     vulnerabilities |-> severities, artifact |-> artifact]

Nginx == [repository |-> "nginx", tag |-> "1.25"]

VulnerabilityReportPool ==
    { VulnerabilityReport("prod", "deployment-web", <<"HIGH", "low">>, Nginx),
      VulnerabilityReport("prod", "deployment-api", <<"CRITICAL", "CRITICAL">>, Nginx),
      VulnerabilityReport("dev", "Deployment-web", <<"medium", "UNKNOWN">>, [repository |-> "web"]),
      VulnerabilityReport("prod", "pod-web", <<"Critical">>, Nginx),
      VulnerabilityReport("prod", "nodash", <<"HIGH">>, Nginx),
      VulnerabilityReport("prod", "deployment-web", <<"UNKNOWN", "negligible">>, Nginx),
      VulnerabilityReport("prod", "deployment-web", <<"CRITICAL", "CRITICAL">>, Nginx) }

\* one finding of rbac-tool
RbacFinding(kind, name, namespace, severity) ==
    [Subject |-> [kind |-> kind, name |-> name, namespace |-> namespace],
     Finding |-> [Severity |-> severity, RuleName |-> kind \o "/" \o severity]]

SaProdHigh == RbacFinding("ServiceAccount", "web-sa", Some("prod"), "High")

GroupCritical == RbacFinding("Group", "web-sa", None, "critical")

UserCritical == RbacFinding("User", "web-sa", None, "CRITICAL")

SaDevMedium == RbacFinding("ServiceAccount", "web-sa", Some("dev"), "Medium")

OtherHigh == RbacFinding("ServiceAccount", "api-sa", Some("prod"), "HIGH")

WebSaHigh == RbacFinding("ServiceAccount", "web-sa", Some("prod"), "HIGH")

RbacFindingLists ==
    { <<>>,
      <<SaProdHigh>>,
      <<WebSaHigh>>,
      <<UserCritical, OtherHigh>>,
      <<GroupCritical, SaProdHigh>>,
      <<SaProdHigh, UserCritical, GroupCritical, SaDevMedium>>,
      <<SaDevMedium, OtherHigh, SaProdHigh, SaProdHigh>> }

CorrelatedWorkloads ==
    { [pods |-> <<Workload("prod", "web", Some(""))>>,
       replica_sets |-> <<>>,
       deployments |-> <<Workload("prod", "web", Some("web-sa")),
                         Workload("prod", "api", None),
                         Workload("dev", "web", Some("web-sa"))>>],
      [pods |-> <<Workload("prod", "web", Some("web-sa"))>>,
       replica_sets |-> <<>>,
       deployments |-> <<Workload("prod", "api", Some("api-sa")),
                         Workload("prod", "eb", None),
                         Workload("prod", "web", Some("web-sa"))>>] }

InitCorrelation ==
    /\ workloads \in CorrelatedWorkloads
    /\ trivy_reports \in InjSeqs(VulnerabilityReportPool, MaxReports)
    /\ rbac_findings \in RbacFindingLists
    /\ call = NoCall

Summaries ==
    [critical : 0..MaxCount, high : 0..MaxCount, medium : 0..MaxCount,
     low : 0..MaxCount, unknown : 0..MaxCount]

\* the summary dicts handed to generate_remediation_tip
TipSummaries ==
    { [critical |-> c, high |-> h, medium |-> 0, low |-> 0, unknown |-> 0] :
        c \in 0..MaxCount, h \in 0..MaxCount }

Severities == {"High", "critical", "LOW", "Medium", "Info"}

\* the FindingDetails lists handed to the helpers
FindingLists ==
    UNION { { MapSeq(s, LAMBDA sev : [Severity |-> sev, RuleName |-> "rule"]) :
                s \in [1..n -> Severities] } : n \in 0..MaxFindings }

Tiers == { RISK_ORDER[i] : i \in 1..Len(RISK_ORDER) }

\* the arguments one helper is called with
HelperInputs ==
    { [op |-> "summary", summary |-> s] : s \in Summaries }
    \cup { [op |-> "findings", findings |-> f] : f \in FindingLists }
    \cup { [op |-> "tiers", trivy_sev |-> a, rbac_sev |-> b] : a \in Tiers, b \in Tiers }
    \cup { [op |-> "tip", summary |-> s, findings |-> f, risk |-> r] :
             s \in TipSummaries, f \in FindingLists, r \in Tiers }

InitHelpers ==
    /\ NoRiskObjects
    /\ call \in HelperInputs

InitRisks ==
    /\ roles = <<>>
    /\ cluster_roles = <<>>
    /\ role_bindings = <<>>
    /\ cluster_role_bindings = <<>>
    /\ result = Idle
    /\ (InitCorrelation \/ InitHelpers)
    /\ NoProcess
    /\ NoOperator

\* the namespace of a /risk request
CorrelationNamespaceArgs == {None, Some("prod"), Some("dev")}

\* GET /risk
CorrelateRisks ==
    \E namespace \in CorrelationNamespaceArgs, tool_fails \in BOOLEAN, list_fails \in BOOLEAN :
        /\ call = NoCall
        /\ call' = [op |-> "correlate_risks", namespace |-> namespace,
                    tool_fails |-> tool_fails, list_fails |-> list_fails]
        /\ result' = correlate_risks(namespace, tool_fails, list_fails)
        /\ UNCHANGED snapshot

\* the min_severity of a /reports request
MinSeverityArgs == {"LOW", "High", "CRITICAL", "bogus"}

\* GET /reports
GetTrivyReports ==
    \E namespace \in CorrelationNamespaceArgs, min_severity \in MinSeverityArgs :
        /\ call = NoCall
        /\ call' = [op |-> "get_trivy_reports", namespace |-> namespace,
                    min_severity |-> min_severity]
        /\ result' = [status |-> "ok", value |-> get_trivy_reports(namespace, min_severity)]
        /\ UNCHANGED snapshot

Returned(value) == [status |-> "ok", value |-> value]

MaxSeverity ==
    /\ call.op = "summary"
    /\ call' = [call EXCEPT !.op = "_max_severity"]
    /\ result' = Returned(_max_severity(call.summary))
    /\ UNCHANGED snapshot

MaxRbacSeverity ==
    /\ call.op = "findings"
    /\ call' = [call EXCEPT !.op = "_max_rbac_severity"]
    /\ result' = Returned(_max_rbac_severity(call.findings))
    /\ UNCHANGED snapshot

CombineRisk ==
    /\ call.op = "tiers"
    /\ call' = [call EXCEPT !.op = "_combine_risk"]
    /\ result' = Returned(_combine_risk(call.trivy_sev, call.rbac_sev))
    /\ UNCHANGED snapshot

GenerateRemediationTip ==
    /\ call.op = "tip"
    /\ call' = [call EXCEPT !.op = "generate_remediation_tip"]
    /\ result' = Returned(generate_remediation_tip("deployment-web", call.summary,
                                                   call.findings, call.risk))
    /\ UNCHANGED snapshot

NextRisks ==
    \/ CorrelateRisks
    \/ GetTrivyReports
    \/ MaxSeverity
    \/ MaxRbacSeverity
    \/ CombineRisk
    \/ GenerateRemediationTip

CorrSpec == InitRisks /\ [][NextRisks]_vars

(***************************************************************************)
(* fetch_rbac_policy_rules and the batch handlers                          *)
(***************************************************************************)
KubeconfigPath == "/tmp/kubeconfig"

\* _setup_rbac_tool_env(): the files after it ran
setup_files(fs) ==
    IF fs.serviceaccount THEN [fs EXCEPT !.kubeconfig = "written"] ELSE fs

\* _setup_rbac_tool_env(): os.environ after it ran
setup_environ(fs, env) ==
    IF fs.serviceaccount THEN [env EXCEPT !.KUBECONFIG = Some(KubeconfigPath)] ELSE env

\* RbacPolicyRule(**item), in a list of its own; no rule for an item that
\* lacks a required field
RbacPolicyRule(item) ==
    IF {"kind", "name", "allowedTo"} \subseteq DOMAIN item
    THEN << [kind |-> item.kind, name |-> item.name,
             namespace |-> Getattr(item, "namespace", None),
             allowedTo |-> item.allowedTo] >>
    ELSE <<>>

Failed(error) == [status |-> error, value |-> <<>>]

\* what one run of rbac-tool did: the error of subprocess.run or json.loads,
\* or the items of the JSON list on its standard output
Ran(items) == [error |-> "", stdout |-> items]

Broke(error) == [error |-> error, stdout |-> <<>>]

\* fetch_rbac_policy_rules(subject): the rules returned or the error raised;
\* output is what rbac-tool does for the subject
fetch_rbac_policy_rules_on(output) ==
    IF output.error # ""
    THEN Failed(output.error)
    ELSE IF \E i \in 1..Len(output.stdout) : RbacPolicyRule(output.stdout[i]) = <<>>
    THEN Failed("ValidationError")
    ELSE [status |-> "ok", value |-> Flatten(MapSeq(output.stdout, RbacPolicyRule))]

fetch_rbac_policy_rules(subject) == fetch_rbac_policy_rules_on(tool_output[subject])

\* run_rbac_analysis() of rbac_service: the findings of the tool, none when
\* anything in the try block raised
rbac_service_run_rbac_analysis(tool_fails) == IF tool_fails THEN <<>> ELSE rbac_findings

RECURSIVE batch_loop(_, _, _)
\* for subject in subjects[i..]: results[subject] = rules, or [] when
\* fetch_rbac_policy_rules raised
batch_loop(subjects, i, results) ==
    IF i > Len(subjects) THEN results
    ELSE LET rules == fetch_rbac_policy_rules(subjects[i])
             value == IF rules.status = "ok" THEN rules.value ELSE <<>>
         IN  batch_loop(subjects, i + 1,
                        [s \in DOMAIN results \cup {subjects[i]} |->
                            IF s = subjects[i] THEN value ELSE results[s]])

RECURSIVE batch_loop_abort(_, _, _)
\* the loop that stops at the first subject whose lookup raised
batch_loop_abort(subjects, i, results) ==
    IF i > Len(subjects) THEN results
    ELSE LET rules == fetch_rbac_policy_rules(subjects[i])
         IN  IF rules.status # "ok" THEN results
             ELSE batch_loop_abort(subjects, i + 1,
                        [s \in DOMAIN results \cup {subjects[i]} |->
                            IF s = subjects[i] THEN rules.value ELSE results[s]])

\* get_batch_policy_rules that gives up at the first failing subject
get_batch_policy_rules_abort(subjects) == batch_loop_abort(subjects, 1, <<>>)

\* get_batch_policy_rules(subjects)
get_batch_policy_rules(subjects) == batch_loop(subjects, 1, <<>>)

\* get_batch_policy_rules_post(subjects)
get_batch_policy_rules_post(subjects) == batch_loop(subjects, 1, <<>>)

(***************************************************************************)
(* Specification of the requests that run rbac-tool                        *)
(***************************************************************************)
\* the most subjects in one batch request
MaxSubjects == 2

SubjectNames == {"alice", "bob"}

ViewRule == [kind |-> "ClusterRole", name |-> "view",
             allowedTo |-> <<[verb |-> "get", resource |-> "pods"]>>]

EditRule == [kind |-> "Role", name |-> "edit", namespace |-> Some("prod"),
             allowedTo |-> <<[verb |-> "delete", resource |-> "pods"]>>]

\* what rbac-tool does when asked for the rules of the subjects
ToolOutputs ==
    { [analysis |-> "", alice |-> Ran(<<ViewRule, EditRule>>), bob |-> Ran(<<EditRule>>)],
      [analysis |-> "", alice |-> Ran(<<ViewRule>>), bob |-> Broke("CalledProcessError")],
      [analysis |-> "TimeoutExpired", alice |-> Broke("TimeoutExpired"), bob |-> Ran(<<>>)],
      [analysis |-> "", alice |-> Broke("JSONDecodeError"), bob |-> Ran(<<EditRule, ViewRule>>)],
      [analysis |-> "", alice |-> Ran(<<ViewRule, [kind |-> "Role", name |-> "broken"]>>),
       bob |-> Ran(<<ViewRule>>)],
      [analysis |-> "CalledProcessError", alice |-> Broke("CalledProcessError"),
       bob |-> Broke("TimeoutExpired")] }

\* the most requests in flight at once
MaxRequests == 2

BatchSubjects == UNION { [1..n -> SubjectNames] : n \in 0..MaxSubjects }

\* subjects: List[str] = Query(...): at least one subject in the query
QuerySubjects == BatchSubjects \ {<<>>}

InitTools ==
    /\ roles = <<>>
    /\ cluster_roles = <<>>
    /\ role_bindings = <<>>
    /\ cluster_role_bindings = <<>>
    /\ workloads = NoWorkloads
    /\ trivy_reports = <<>>
    /\ rbac_findings \in {<<>>, <<WebSaHigh, UserCritical>>}
    /\ call = NoCall
    /\ result = Idle
    /\ files \in { [serviceaccount |-> in_pod, kubeconfig |-> "absent"] : in_pod \in BOOLEAN }
    /\ environ = [KUBECONFIG |-> None]
    /\ requests = <<>>
    /\ tool_output \in ToolOutputs
    /\ NoOperator

\* GET /rbac/policy-rules
GetRbacPolicyRules ==
    \E subject \in SubjectNames :
        /\ call = NoCall /\ requests = <<>>
        /\ call' = [op |-> "fetch_rbac_policy_rules", subjects |-> <<subject>>]
        /\ files' = setup_files(files)
        /\ environ' = setup_environ(files, environ)
        /\ result' = fetch_rbac_policy_rules(subject)
        /\ UNCHANGED <<rbac_objects, risk_objects, requests, tool_output, operator_state>>

\* GET /rbac/policy-rules/batch
GetBatchPolicyRules ==
    \E subjects \in QuerySubjects :
        /\ call = NoCall /\ requests = <<>>
        /\ call' = [op |-> "get_batch_policy_rules", subjects |-> subjects]
        /\ files' = IF subjects = <<>> THEN files ELSE setup_files(files)
        /\ environ' = IF subjects = <<>> THEN environ ELSE setup_environ(files, environ)
        /\ result' = [status |-> "ok", value |-> get_batch_policy_rules(subjects)]
        /\ UNCHANGED <<rbac_objects, risk_objects, requests, tool_output, operator_state>>

\* POST /rbac/policy-rules/batch
GetBatchPolicyRulesPost ==
    \E subjects \in BatchSubjects :
        /\ call = NoCall /\ requests = <<>>
        /\ call' = [op |-> "get_batch_policy_rules_post", subjects |-> subjects]
        /\ files' = IF subjects = <<>> THEN files ELSE setup_files(files)
        /\ environ' = IF subjects = <<>> THEN environ ELSE setup_environ(files, environ)
        /\ result' = [status |-> "ok", value |-> get_batch_policy_rules_post(subjects)]
        /\ UNCHANGED <<rbac_objects, risk_objects, requests, tool_output, operator_state>>

\* GET /rbac/analysis
GetRbacFindings ==
    /\ call = NoCall /\ requests = <<>>
    /\ call' = [op |-> "run_rbac_analysis", subjects |-> <<>>]
    /\ files' = setup_files(files)
    /\ environ' = setup_environ(files, environ)
    /\ result' = [status |-> "ok",
                  value |-> rbac_service_run_rbac_analysis(tool_output.analysis # "")]
    /\ UNCHANGED <<rbac_objects, risk_objects, requests, tool_output, operator_state>>

(***************************************************************************)
(* Two requests in the worker threads of the server, statement by          *)
(* statement: _setup_rbac_tool_env and the run of rbac-tool                *)
(***************************************************************************)
Request(op, subject) ==
    [op |-> op, subject |-> subject, pc |-> "exists", result |-> Idle,
     wrote |-> {}, read |-> {}]

RequestKinds ==
    {Request("run_rbac_analysis", "")}
        \cup {Request("fetch_rbac_policy_rules", subject) : subject \in SubjectNames}

OthersUnchanged == UNCHANGED <<rbac_objects, risk_objects, call, result, tool_output, operator_state>>

\* a worker thread takes a request for /analysis or /policy-rules
Begin ==
    \E r \in RequestKinds :
        /\ call = NoCall
        /\ Len(requests) < MaxRequests
        /\ requests' = Append(requests, r)
        /\ UNCHANGED <<files, environ>>
        /\ OthersUnchanged

\* if os.path.exists('/var/run/secrets/kubernetes.io/serviceaccount'):
CheckServiceAccount ==
    \E id \in DOMAIN requests :
        /\ requests[id].pc = "exists"
        /\ requests' = [requests EXCEPT ![id].pc =
                            IF files.serviceaccount THEN "open" ELSE "run"]
        /\ UNCHANGED <<files, environ>>
        /\ OthersUnchanged

\* with open(kubeconfig_path, 'w') as f: the file is created or truncated
OpenKubeconfig ==
    \E id \in DOMAIN requests :
        /\ requests[id].pc = "open"
        /\ files' = [files EXCEPT !.kubeconfig = "empty"]
        /\ requests' = [requests EXCEPT ![id].pc = "write",
                                        ![id].wrote = @ \cup {KubeconfigPath}]
        /\ UNCHANGED environ
        /\ OthersUnchanged

\* f.write(kubeconfig_content) and the close at the end of the with block
WriteKubeconfig ==
    \E id \in DOMAIN requests :
        /\ requests[id].pc = "write"
        /\ files' = [files EXCEPT !.kubeconfig = "written"]
        /\ requests' = [requests EXCEPT ![id].pc = "environ"]
        /\ UNCHANGED environ
        /\ OthersUnchanged

\* os.environ['KUBECONFIG'] = kubeconfig_path
SetEnviron ==
    \E id \in DOMAIN requests :
        /\ requests[id].pc = "environ"
        /\ environ' = [environ EXCEPT !.KUBECONFIG = Some(KubeconfigPath)]
        /\ requests' = [requests EXCEPT ![id].pc = "run",
                                        ![id].wrote = @ \cup {"KUBECONFIG"}]
        /\ UNCHANGED files
        /\ OthersUnchanged

\* the configuration rbac-tool finds: the file KUBECONFIG names, or the
\* default of the client when the variable is not set
ConfigSeen ==
    IF IsNone(environ.KUBECONFIG) THEN "default" ELSE files.kubeconfig

\* the handler's answer after subprocess.run; broken: the tool exits
\* non-zero because of the configuration it found
answer(r, broken) ==
    IF r.op = "run_rbac_analysis"
    THEN [status |-> "ok",
          value |-> rbac_service_run_rbac_analysis(broken \/ tool_output.analysis # "")]
    ELSE IF broken THEN Failed("CalledProcessError")
         ELSE fetch_rbac_policy_rules(r.subject)

\* subprocess.run(["rbac-tool", ...]) and the rest of the handler; the child
\* inherits os.environ and reads the file it names; with a truncated file the
\* tool fails or falls back to the in-cluster configuration
RunTool ==
    \E id \in DOMAIN requests :
        \E broken \in (IF ConfigSeen = "empty" THEN BOOLEAN ELSE {FALSE}) :
            /\ requests[id].pc = "run"
            /\ requests' = [requests EXCEPT
                    ![id].pc = "done",
                    ![id].result = answer(requests[id], broken),
                    ![id].read = @ \cup {"KUBECONFIG"}
                                   \cup (IF IsNone(environ.KUBECONFIG) THEN {}
                                         ELSE {KubeconfigPath})]
            /\ UNCHANGED <<files, environ>>
            /\ OthersUnchanged

NextTools ==
    \/ GetRbacFindings
    \/ GetRbacPolicyRules
    \/ GetBatchPolicyRules
    \/ GetBatchPolicyRulesPost
    \/ Begin
    \/ CheckServiceAccount
    \/ OpenKubeconfig
    \/ WriteKubeconfig
    \/ SetEnviron
    \/ RunTool

ToolSpec == InitTools /\ [][NextTools]_vars

(***************************************************************************)
(* The operator: handle_scan_request and create_scan_job                   *)
(***************************************************************************)
RECURSIVE join(_, _)
\* sep.join(items)
join(sep, items) ==
    IF items = <<>> THEN ""
    ELSE IF Len(items) = 1 THEN items[1]
    ELSE items[1] \o sep \o join(sep, Tail(items))

\* d.get(key, default) on a dict kept as a record
Get(d, key, default) == IF key \in DOMAIN d THEN d[key] ELSE default

\* str(KeyError(key))
KeyError(key) == "'" \o key \o "'"

\* create_scan_job(name, namespace, spec): the Job built, or the text of the
\* KeyError of the first subscript that finds no key; suffix is
\* str(uuid.uuid4())[:6]
create_scan_job(name, namespace, spec, suffix) ==
    LET job_name == "scan-job-" \o name \o "-" \o suffix
    IN  IF "source" \notin DOMAIN spec THEN [status |-> "KeyError", value |-> KeyError("source")]
        ELSE IF "path" \notin DOMAIN spec.source
        THEN [status |-> "KeyError", value |-> KeyError("path")]
        ELSE [status |-> "ok",
              value |-> [name |-> job_name,
                         namespace |-> namespace,
                         labels |-> [job |-> job_name],
                         image |-> "scanner-job:dev",
                         restart_policy |-> "Never",
                         backoff_limit |-> 0,
                         env |-> [REPO |-> Get(spec.source, "repo", ""),
                                  PATH |-> spec.source.path,
                                  REF |-> Get(spec.source, "ref", "main"),
                                  SCANNERS |-> join(",", Get(spec, "scanners", <<>>)),
                                  RENDER_TYPE |-> Get(Get(spec, "render", <<>>), "type", "helm"),
                                  SCAN_REQUEST_NAME |-> name,
                                  SCAN_REQUEST_NAMESPACE |-> namespace]]]

\* patch.status with nothing set
NoPatch == [phase |-> None, startedAt |-> None, message |-> None]

\* the handler that leaves the phase alone when the creation raised
handle_scan_request_stays_running(meta, spec, env) ==
    LET namespace == Getattr(meta, "namespace", None)
        started == [NoPatch EXCEPT !.phase = Some("Running"),
                                   !.startedAt = Some(env.now \o "Z")]
        job == create_scan_job(meta.name, Val(namespace), spec, env.suffix)
    IN  IF ~TruthyStr(namespace)
        THEN [status |-> "TemporaryError", value |-> "Missing namespace in metadata",
              patch |-> NoPatch, created |-> <<>>]
        ELSE IF ~env.in_cluster
        THEN [status |-> "ConfigException", value |-> "Service host/port is not set.",
              patch |-> NoPatch, created |-> <<>>]
        ELSE IF job.status # "ok"
        THEN [status |-> "ok", value |-> "",
              patch |-> [started EXCEPT !.message = Some(job.value)], created |-> <<>>]
        ELSE IF env.api_error # ""
        THEN [status |-> "ok", value |-> "",
              patch |-> [started EXCEPT !.message = Some(env.api_error)],
              created |-> <<[body |-> job.value, error |-> env.api_error]>>]
        ELSE [status |-> "ok", value |-> "",
              patch |-> [started EXCEPT !.message = Some("Scan job submitted"),
                                        !.phase = Some("Pending")],
              created |-> <<[body |-> job.value, error |-> ""]>>]

\* handle_scan_request(spec, meta, status, patch, ...): how the handler ends
\* (status), patch.status as it leaves it, and the calls of
\* batch.create_namespaced_job it made (created); env is what the handler
\* finds around it: in_cluster, api_error, suffix, now
handle_scan_request(meta, spec, env) ==
    LET namespace == Getattr(meta, "namespace", None)
        started == [NoPatch EXCEPT !.phase = Some("Running"),
                                   !.startedAt = Some(env.now \o "Z")]
        job == create_scan_job(meta.name, Val(namespace), spec, env.suffix)
    IN  IF ~TruthyStr(namespace)
        THEN [status |-> "TemporaryError", value |-> "Missing namespace in metadata",
              patch |-> NoPatch, created |-> <<>>]
        ELSE IF ~env.in_cluster
        THEN [status |-> "ConfigException", value |-> "Service host/port is not set.",
              patch |-> NoPatch, created |-> <<>>]
        ELSE IF job.status # "ok"
        THEN [status |-> "ok", value |-> "",
              patch |-> [started EXCEPT !.phase = Some("Failed"),
                                        !.message = Some(job.value)],
              created |-> <<>>]
        ELSE IF env.api_error # ""
        THEN [status |-> "ok", value |-> "",
              patch |-> [started EXCEPT !.phase = Some("Failed"),
                                        !.message = Some(env.api_error)],
              created |-> <<[body |-> job.value, error |-> env.api_error]>>]
        ELSE [status |-> "ok", value |-> "",
              patch |-> [started EXCEPT !.message = Some("Scan job submitted"),
                                        !.phase = Some("Pending")],
              created |-> <<[body |-> job.value, error |-> ""]>>]

(***************************************************************************)
(* Specification of the operator                                           *)
(***************************************************************************)
ScanRequestMetas ==
    { [name |-> "scan-a"],
      [name |-> "scan-a", namespace |-> Some("")],
      [name |-> "scan-a", namespace |-> Some("default")],
      [name |-> "scan-b", namespace |-> Some("prod")] }

ScanRequestSpecs ==
    { [source |-> [repo |-> "https://git.example/app", path |-> "charts/app", ref |-> "v1"],
       scanners |-> <<"trivy", "kubescape">>, render |-> [type |-> "kustomize"]],
      [source |-> [path |-> "."]],
      [source |-> [path |-> "manifests"], scanners |-> <<"trivy">>, render |-> <<>>],
      [source |-> [repo |-> "https://git.example/app"], scanners |-> <<>>],
      [scanners |-> <<"trivy">>] }

\* what the handler finds around it
Environments ==
    [in_cluster : BOOLEAN,
     api_error : {"", "(409) Reason: Conflict", "(403) Reason: Forbidden"},
     suffix : {"3f2a9c", "b07e41"},
     now : {"2025-01-01T00:00:00.000001"}]

InitOperator ==
    /\ roles = <<>>
    /\ cluster_roles = <<>>
    /\ role_bindings = <<>>
    /\ cluster_role_bindings = <<>>
    /\ workloads = NoWorkloads
    /\ NoRiskObjects
    /\ call = NoCall
    /\ result = Idle
    /\ NoProcess
    /\ NoOperator

\* @kopf.on.create('kube-guard.io', 'v1alpha1', 'scanrequests')
HandleScanRequest ==
    \E meta \in ScanRequestMetas, spec \in ScanRequestSpecs, env \in Environments :
        LET handled == handle_scan_request(meta, spec, env)
        IN  /\ call = NoCall
            /\ call' = [op |-> "handle_scan_request", meta |-> meta, spec |-> spec, env |-> env]
            /\ result' = [status |-> handled.status, value |-> handled.value]
            /\ patch_status' = handled.patch
            /\ jobs' = jobs \o handled.created
            /\ UNCHANGED <<rbac_objects, risk_objects, process_state>>

NextOperator == HandleScanRequest

OperatorSpec == InitOperator /\ [][NextOperator]_vars

(***************************************************************************)
(* The grants of a snapshot, stated from the RBAC objects alone            *)
(***************************************************************************)
WhoCanCalled == call.op = "who_can"

WhoCanReturned == WhoCanCalled /\ result.status = "ok"

\* the rules of a role, None read as no rule
RulesOf(role) == OrSeq(role.rules)

\* at least one rule of the role allows verb on resource
Grants(role, verb, resource) ==
    \E i \in 1..Len(RulesOf(role)) :
        LET rule == RulesOf(role)[i]
        IN  /\ (verb \in OrSet(rule.verbs) \/ "*" \in OrSet(rule.verbs))
            /\ (resource \in OrSet(rule.resources) \/ "*" \in OrSet(rule.resources))

\* the roles the roleRef of a binding resolves to: the Role of that name in
\* the binding's namespace, or the ClusterRole of that name
ResolvedRoles(binding) ==
    IF binding.role_ref.kind = "Role"
    THEN { roles[i] : i \in { k \in 1..Len(roles) :
               roles[k].namespace = binding.namespace /\ roles[k].name = binding.role_ref.name } }
    ELSE { cluster_roles[i] : i \in { k \in 1..Len(cluster_roles) :
               cluster_roles[k].name = binding.role_ref.name } }

Granting(binding, verb, resource) ==
    \E role \in ResolvedRoles(binding) : Grants(role, verb, resource)

\* the RoleBindings who_can looks at for a namespace argument: those of the
\* namespace, none when the namespace is omitted
InScope(rb, namespace) == TruthyStr(namespace) /\ rb.namespace = namespace

SubjectPairs(kind, bindings, keep(_)) ==
    UNION { { <<kind, i, j>> : j \in 1..Len(OrSeq(bindings[i].subjects)) } :
            i \in { k \in 1..Len(bindings) : keep(bindings[k]) } }

\* the (binding, subject) pairs that grant verb on resource, each named by
\* the binding's kind, its position in the listing and the subject's position
GrantPairs(verb, resource, namespace) ==
    SubjectPairs("RoleBinding", role_bindings,
                 LAMBDA rb : InScope(rb, namespace) /\ Granting(rb, verb, resource))
    \cup
    SubjectPairs("ClusterRoleBinding", cluster_role_bindings,
                 LAMBDA crb : Granting(crb, verb, resource))

BindingOf(p) == IF p[1] = "RoleBinding" THEN role_bindings[p[2]] ELSE cluster_role_bindings[p[2]]

SubjectOf(p) == Val(BindingOf(p).subjects)[p[3]]

\* the subject and role texts of the entry a pair stands for
EntryText(p) ==
    <<SubjectOf(p).kind \o "/" \o SubjectOf(p).name,
      BindingOf(p).role_ref.kind \o "/" \o BindingOf(p).role_ref.name>>

TextOf(entry) == <<entry.subject, entry.role>>

CallPairs == GrantPairs(call.verb, call.resource, call.namespace)

\* C1: who_can with a namespace returns exactly one entry per granting
\* (binding, subject) pair of the RoleBindings of that namespace and the
\* ClusterRoleBindings: no other entry, and a subject granted by k bindings
\* is listed k times.
C1_ExactlyTheGrantPairs ==
    (WhoCanReturned /\ TruthyStr(call.namespace)) =>
        LET n == Len(result.value)
        IN  /\ n = Cardinality(CallPairs)
            /\ \A k \in 1..n : \E p \in CallPairs : EntryText(p) = TextOf(result.value[k])
            /\ \A p \in CallPairs :
                   Cardinality({ q \in CallPairs : EntryText(q) = EntryText(p) })
                   = Cardinality({ k \in 1..n : TextOf(result.value[k]) = EntryText(p) })

\* a namespaced call returned a subject twice (two granting bindings) while
\* another binding of the namespace granted nothing
C1_Witness ==
    /\ WhoCanReturned /\ TruthyStr(call.namespace)
    /\ \E k, l \in 1..Len(result.value) :
           /\ k # l
           /\ result.value[k].subject = result.value[l].subject
    /\ \E i \in 1..Len(role_bindings) :
           /\ InScope(role_bindings[i], call.namespace)
           /\ ~IsNone(role_bindings[i].subjects)
           /\ ~Granting(role_bindings[i], call.verb, call.resource)

HasWildcardRule(role) ==
    \E i \in 1..Len(RulesOf(role)) :
        RulesOf(role)[i].verbs = Some({"*"}) /\ RulesOf(role)[i].resources = Some({"*"})

AllBindings ==
    { role_bindings[i] : i \in 1..Len(role_bindings) }
    \cup { cluster_role_bindings[i] : i \in 1..Len(cluster_role_bindings) }

\* C2: a binding whose role has a rule verbs={"*"}, resources={"*"} is found
\* for every verb and resource: who_can returns an entry for each of its
\* subjects, with the namespace omitted and with the binding's namespace.
C2_WildcardBindingFound ==
    WhoCanReturned =>
        \A b \in AllBindings :
            ( /\ \E role \in ResolvedRoles(b) : HasWildcardRule(role)
              /\ (IsNone(call.namespace) \/ IsNone(b.namespace) \/ b.namespace = call.namespace) )
            => \A j \in 1..Len(OrSeq(b.subjects)) :
                   \E k \in 1..Len(result.value) :
                       result.value[k].subject
                           = Val(b.subjects)[j].kind \o "/" \o Val(b.subjects)[j].name

\* the pair of the k-th entry: RoleBindings before ClusterRoleBindings, then
\* listing order, then subject order
Before(q, p) ==
    \/ q[1] = "RoleBinding" /\ p[1] = "ClusterRoleBinding"
    \/ q[1] = p[1] /\ q[2] < p[2]
    \/ q[1] = p[1] /\ q[2] = p[2] /\ q[3] < p[3]

Kth(pairs, k) == CHOOSE p \in pairs : Cardinality({ q \in pairs : Before(q, p) }) = k - 1

EntryCount == IF Len(result.value) <= Cardinality(CallPairs)
              THEN Len(result.value) ELSE Cardinality(CallPairs)

\* C3 as claimed: an entry of a ClusterRoleBinding has namespace
\* "cluster-wide", an entry of a RoleBinding the RoleBinding's namespace,
\* whatever namespace the subject carries.
C3_ClusterWideSentinelAlways ==
    WhoCanReturned =>
        \A k \in 1..EntryCount :
            LET p == Kth(CallPairs, k)
            IN  result.value[k].namespace =
                    IF p[1] = "ClusterRoleBinding" THEN "cluster-wide"
                    ELSE Val(BindingOf(p).namespace)

\* C3 amended: an entry of a ClusterRoleBinding has the subject's own
\* namespace when the subject carries a non-empty one and "cluster-wide"
\* otherwise; an entry of a RoleBinding has the RoleBinding's namespace,
\* whatever namespace the subject carries.
C3_SubjectNamespaceOrSentinel ==
    WhoCanReturned =>
        \A k \in 1..EntryCount :
            LET p == Kth(CallPairs, k)
            IN  result.value[k].namespace =
                    IF p[1] = "RoleBinding" THEN Val(BindingOf(p).namespace)
                    ELSE IF TruthyStr(SubjectOf(p).namespace) THEN Val(SubjectOf(p).namespace)
                    ELSE "cluster-wide"

\* one result holds a ClusterRoleBinding entry with the subject's namespace,
\* one with the sentinel, and a RoleBinding entry of a subject that carries
\* another namespace than the RoleBinding
C3_Witness ==
    /\ WhoCanReturned
    /\ \E k, l, m \in 1..EntryCount :
           /\ Kth(CallPairs, k)[1] = "ClusterRoleBinding"
           /\ result.value[k].namespace = "kube-system"
           /\ Kth(CallPairs, l)[1] = "ClusterRoleBinding"
           /\ result.value[l].namespace = "cluster-wide"
           /\ Kth(CallPairs, m)[1] = "RoleBinding"
           /\ SubjectOf(Kth(CallPairs, m)).namespace = Some("kube-system")
           /\ result.value[m].namespace = "ns1"

\* a binding whose roleRef names no role of the snapshot, or a role without rules
Dangling(b) == \A role \in ResolvedRoles(b) : RulesOf(role) = <<>>

Without(bindings, b) == SelectSeq(bindings, LAMBDA x : x # b)

\* C4: a binding whose role is missing or has no rules contributes no entry
\* and raises no error; the result is the one of the snapshot without it.
C4_DanglingBindingIgnored ==
    WhoCanCalled =>
        \A b \in AllBindings :
            (Dangling(b) /\ (IsNone(b.namespace) \/ InScope(b, call.namespace))) =>
                /\ result.status = "ok"
                /\ result = who_can_on(Without(role_bindings, b),
                                       Without(cluster_role_bindings, b),
                                       roles, cluster_roles,
                                       call.verb, call.resource, call.namespace)

\* C5: the entries come in a fixed order: by binding in listing order, the
\* RoleBindings' entries before the ClusterRoleBindings', and within a
\* binding in subject order; the same call repeated on the unchanged
\* snapshot returns the same sequence.
C5_FixedOrder ==
    /\ WhoCanReturned =>
           /\ Len(result.value) = Cardinality(CallPairs)
           /\ \A k \in 1..EntryCount :
                  TextOf(result.value[k]) = EntryText(Kth(CallPairs, k))
    /\ (WhoCanCalled /\ call.repeated) => result = call.first

\* a repeated call whose result has entries of two RoleBindings and of a
\* ClusterRoleBinding with two subjects
C5_Witness ==
    /\ WhoCanReturned /\ call.repeated
    /\ \E p, q, r, t \in CallPairs :
           /\ p[1] = "RoleBinding" /\ q[1] = "RoleBinding" /\ p[2] # q[2]
           /\ r[1] = "ClusterRoleBinding" /\ t[1] = "ClusterRoleBinding"
           /\ r[2] = t[2] /\ r[3] # t[3]

(***************************************************************************)
(* get_all_bindings against the raw listings                               *)
(***************************************************************************)
BindingsCalled == call.op \in {"get_all_bindings", "list_bindings"}

\* the raw objects the call got from each listing
ListedCRBs == IF call.crb_forbidden THEN <<>> ELSE cluster_role_bindings

ListedRBs == IF call.rb_forbidden THEN <<>> ELSE role_bindings

\* kind, name, roleRef kind/name and the subjects, in order, are the raw object's
TakenFrom(out, raw, kind) ==
    /\ out.kind = kind
    /\ out.name = raw.name
    /\ out.roleRef.kind = raw.role_ref.kind
    /\ out.roleRef.name = raw.role_ref.name
    /\ Len(out.subjects) = Len(OrSeq(raw.subjects))
    /\ \A j \in 1..Len(out.subjects) :
           /\ out.subjects[j].kind = Val(raw.subjects)[j].kind
           /\ out.subjects[j].name = Val(raw.subjects)[j].name

\* the result is one Binding per listed ClusterRoleBinding, then one per
\* listed RoleBinding, and nothing else
OnePerListed(crbs, rbs) ==
    /\ Len(result.value) = Len(crbs) + Len(rbs)
    /\ \A i \in 1..Len(crbs) : TakenFrom(result.value[i], crbs[i], "ClusterRoleBinding")
    /\ \A i \in 1..Len(rbs) : TakenFrom(result.value[Len(crbs) + i], rbs[i], "RoleBinding")

\* C6: a ServiceAccount subject without a namespace in a raw RoleBinding is
\* returned with the RoleBinding's namespace; a User or Group subject without
\* a namespace keeps an absent namespace.
C6_ServiceAccountInheritsNamespace ==
    (BindingsCalled /\ Len(result.value) = Len(ListedCRBs) + Len(ListedRBs)) =>
        \A i \in 1..Len(ListedRBs) :
            LET rb == ListedRBs[i]
                out == result.value[Len(ListedCRBs) + i]
            IN  \A j \in 1..Len(OrSeq(rb.subjects)) :
                    IsNone(Val(rb.subjects)[j].namespace) =>
                        out.subjects[j].namespace =
                            IF Val(rb.subjects)[j].kind = "ServiceAccount"
                            THEN rb.namespace ELSE None

\* C7: without a namespace and with both listings answered, the result is
\* exactly one Binding per ClusterRoleBinding plus one per RoleBinding of
\* every namespace, with kind, name, roleRef and subjects of the raw object.
C7_AllBindingsListed ==
    (BindingsCalled /\ IsNone(call.namespace) /\ ~call.crb_forbidden /\ ~call.rb_forbidden) =>
        OnePerListed(cluster_role_bindings, role_bindings)

\* a listing of a ClusterRoleBinding and of RoleBindings of two namespaces
C7_Witness ==
    /\ call.op = "get_all_bindings" /\ ~call.crb_forbidden /\ ~call.rb_forbidden
    /\ Len(cluster_role_bindings) >= 1
    /\ \E i, j \in 1..Len(role_bindings) :
           role_bindings[i].namespace # role_bindings[j].namespace
    /\ Len(result.value) = 3
    /\ \E k \in 1..3 : Len(result.value[k].subjects) = 2

\* C8 as claimed: with a namespace, the listing returns the
\* ClusterRoleBindings plus only the RoleBindings of that namespace.
C8_OnlyRequestedNamespace ==
    (call.op = "list_bindings" /\ TruthyStr(call.namespace)
        /\ ~call.crb_forbidden /\ ~call.rb_forbidden) =>
        OnePerListed(cluster_role_bindings, InNamespace(role_bindings, Val(call.namespace)))

\* C8 amended: the binding listing takes no namespace; a request that names
\* one still gets every ClusterRoleBinding plus the RoleBindings of every
\* namespace.
C8_NamespaceNotRead ==
    (call.op = "list_bindings" /\ TruthyStr(call.namespace)) =>
        OnePerListed(ListedCRBs, ListedRBs)

\* a request for one namespace answered with a RoleBinding of another
C8_Witness ==
    /\ call.op = "list_bindings" /\ call.namespace = Some("ns1")
    /\ ~call.crb_forbidden /\ ~call.rb_forbidden
    /\ Len(cluster_role_bindings) = 1 /\ Len(role_bindings) = 2
    /\ role_bindings[1].namespace = Some("ns2")
    /\ role_bindings[2].namespace = Some("ns1")
    /\ Len(result.value) = 3
    /\ result.value[2].name = role_bindings[1].name

\* C9: roleRef.namespace is the binding's namespace exactly for a
\* RoleBinding that references a Role, and absent for every
\* ClusterRoleBinding and every RoleBinding that references a ClusterRole.
C9_RoleRefNamespace ==
    (BindingsCalled /\ Len(result.value) = Len(ListedCRBs) + Len(ListedRBs)) =>
        /\ \A i \in 1..Len(ListedCRBs) : IsNone(result.value[i].roleRef.namespace)
        /\ \A i \in 1..Len(ListedRBs) :
               LET out == result.value[Len(ListedCRBs) + i]
               IN  /\ (out.roleRef.namespace = ListedRBs[i].namespace)
                          <=> (out.kind = "RoleBinding" /\ out.roleRef.kind = "Role")
                   /\ ~(out.kind = "RoleBinding" /\ out.roleRef.kind = "Role")
                          => IsNone(out.roleRef.namespace)

\* a result with a RoleBinding to a Role, a RoleBinding to a ClusterRole and
\* a ClusterRoleBinding
C9_Witness ==
    /\ BindingsCalled /\ Len(result.value) = 3
    /\ result.value[1].kind = "ClusterRoleBinding"
    /\ \E k, l \in 2..3 :
           /\ result.value[k].roleRef.kind = "Role"
           /\ ~IsNone(result.value[k].roleRef.namespace)
           /\ result.value[l].roleRef.kind = "ClusterRole"
           /\ IsNone(result.value[l].roleRef.namespace)

\* a Binding without its position-dependent id
Content(b) == [name |-> b.name, kind |-> b.kind, subjects |-> b.subjects, roleRef |-> b.roleRef]

\* the Bindings (without ids) the result holds at positions from+1..from+n
ContentAt(from, n) == [i \in 1..n |-> Content(result.value[from + i])]

\* C10: a listing that fails with an ApiException is taken as empty: the
\* result is exactly the Bindings of the other listing, the same as when
\* both succeed, and it is empty when both fail.
C10_ForbiddenListingIsEmpty ==
    BindingsCalled =>
        /\ OnePerListed(ListedCRBs, ListedRBs)
        /\ (call.crb_forbidden /\ call.rb_forbidden) => result.value = <<>>
        /\ (call.crb_forbidden /\ ~call.rb_forbidden) =>
               ContentAt(0, Len(result.value))
                   = [i \in 1..Len(role_bindings) |-> Content(rb_binding(role_bindings[i], 0))]
        /\ (~call.crb_forbidden /\ call.rb_forbidden) =>
               ContentAt(0, Len(result.value))
                   = [i \in 1..Len(cluster_role_bindings) |->
                          Content(crb_binding(cluster_role_bindings[i], 0))]

\* the ClusterRoleBinding listing was forbidden and the RoleBindings came back
C10_Witness ==
    /\ call.op = "get_all_bindings" /\ call.crb_forbidden /\ ~call.rb_forbidden
    /\ Len(cluster_role_bindings) = 1 /\ Len(role_bindings) = 2
    /\ Len(result.value) = 2
    /\ result.value[1].kind = "RoleBinding" /\ result.value[2].kind = "RoleBinding"

(***************************************************************************)
(* fetch_rules_for_role against the snapshot                               *)
(***************************************************************************)
RulesFetched == call.op = "fetch_rules_for_role"

\* the Roles / ClusterRoles the key (kind, name, namespace) of the call names
KeyedRoles ==
    IF call.kind = "ClusterRole"
    THEN { cluster_roles[i] : i \in { k \in 1..Len(cluster_roles) :
               cluster_roles[k].name = call.role_name } }
    ELSE { roles[i] : i \in { k \in 1..Len(roles) :
               roles[k].name = call.role_name /\ roles[k].namespace = call.namespace } }

\* C11: kind=Role without a namespace (absent or empty) fails with the
\* invalid-argument error for every role name, before any read of the
\* cluster; with kind=ClusterRole the outcome is the same for every namespace
\* argument.
C11_RoleNeedsNamespace ==
    RulesFetched =>
        /\ (call.kind = "Role" /\ ~TruthyStr(call.namespace)) =>
               (result.status = "ValueError" /\ result.reads = 0)
        /\ call.kind = "ClusterRole" =>
               /\ result.status = (IF KeyedRoles = {} THEN "ApiException" ELSE "ok")
               /\ \A namespace \in RoleNamespaceArgs :
                      result = fetch_rules_for_role(call.role_name, call.kind, namespace)

\* a Role lookup without namespace for a role that exists in ns1 was refused
\* unread
C11_Witness ==
    /\ RulesFetched /\ call.kind = "Role" /\ call.role_name = "r1"
    /\ call.namespace = Some("")
    /\ \E i \in 1..Len(roles) : roles[i].name = "r1"
    /\ result.status = "ValueError" /\ result.reads = 0

\* the lookup names a key a role could have
ValidKey == call.kind = "ClusterRole" \/ (call.kind = "Role" /\ TruthyStr(call.namespace))

SaCalled == call.op = "get_service_account_for_resource"

WorkloadKinds == {"pod", "replicaset", "deployment"}

\* the text of report_name before its first "-"
KindPrefix == split_once(call.report_name)[1]

\* the workloads of the kind the report name starts with, in the namespace of
\* the call, in listing order
SameKindHere == InNamespace(ListingOf(lower(KindPrefix)), call.namespace)

NameMatches == { i \in 1..Len(SameKindHere) : Contains(SameKindHere[i].name, call.report_name) }

\* C13: for a report name "{kind}-{rest}" with kind one of pod, replicaset,
\* deployment in any letter case, only the workloads of that kind in the
\* namespace are listed and the ServiceAccount name of the first of them, in
\* listing order, whose name is a substring of the report name is returned;
\* "deployment-myapp-abc123" gives the account of the Deployment "myapp"; any
\* other kind prefix gives absent.
C13_FirstSubstringMatch ==
    (SaCalled /\ result.status = "ok" /\ ~call.list_fails) =>
        IF lower(KindPrefix) \in WorkloadKinds
        THEN /\ result.listed = <<[kind |-> lower(KindPrefix), namespace |-> call.namespace]>>
             /\ NameMatches = {} => result.value = None
             /\ \A i \in NameMatches :
                    (\A j \in NameMatches : i <= j) =>
                        result.value = SameKindHere[i].service_account_name
             /\ ( /\ call.report_name = "deployment-myapp-abc123"
                  /\ Len(SameKindHere) > 0
                  /\ SameKindHere[1].name = "myapp" ) =>
                    result.value = SameKindHere[1].service_account_name
        ELSE result.value = None /\ result.listed = <<>>

\* two Deployments match "Deployment-web" and the account of the first listed
\* was returned
C13_Witness ==
    /\ SaCalled /\ call.report_name = "Deployment-web" /\ call.namespace = "prod"
    /\ ~call.list_fails
    /\ Len(SameKindHere) = 2
    /\ SameKindHere[1].name = "web" /\ SameKindHere[2].name = "eb"
    /\ result = Found(Some("web-sa"), <<[kind |-> "deployment", namespace |-> "prod"]>>)

\* C14: get_service_account_for_resource raises for no namespace and no
\* report name, with or without "-", with or without a known kind prefix,
\* whether the listing fails or not.
C14_NeverRaises == SaCalled => result.status = "ok"

(***************************************************************************)
(* correlate_risks against the cluster                                     *)
(***************************************************************************)
CorrelationReturned == call.op = "correlate_risks" /\ result.status = "ok"

\* the vulnerability reports the call works through
ReportsRead == get_trivy_reports(call.namespace, "LOW")

\* the findings the provider handed to the call
FindingsProvided == IF call.tool_fails THEN <<>> ELSE rbac_findings

\* the ServiceAccount resolved for a report: absent, or a name (maybe empty)
ResolvedFor(report) ==
    get_service_account_for_resource(report.namespace, report.resource, call.list_fails).value

Unresolved(report) == ResolvedFor(report) \in {None, Some("")}

Key(r) == <<r.namespace, r.resource, r.image>>

\* C15: every report correlate_risks returns has a non-empty service_account,
\* and a vulnerability report whose ServiceAccount is not resolved (absent, or
\* the matched workload names none) has no entry: the entries are those of
\* the resolved reports, one each, in the order of the reports.
C15_OnlyResolvedReports ==
    CorrelationReturned =>
        LET reports == ReportsRead
            resolved == SelectSeq(reports, LAMBDA r : ~Unresolved(r))
        IN  /\ \A i \in 1..Len(result.value) : result.value[i].service_account # ""
            /\ MapSeq(result.value, Key) = MapSeq(resolved, Key)
            /\ \A i \in 1..Len(result.value) :
                   i <= Len(resolved) =>
                       ResolvedFor(resolved[i]) = Some(result.value[i].service_account)
            /\ \A j \in 1..Len(reports) :
                   Unresolved(reports[j]) =>
                       Len(result.value) < Len(reports)

\* of two reports read, one without a ServiceAccount, only the other came back
C15_Witness ==
    /\ CorrelationReturned
    /\ Len(ReportsRead) = 2
    /\ ResolvedFor(ReportsRead[1]) = None
    /\ ResolvedFor(ReportsRead[2]) = Some("web-sa")
    /\ Len(result.value) = 1
    /\ result.value[1].resource = ReportsRead[2].resource
    /\ result.value[1].service_account = "web-sa"

\* f is a finding about the ServiceAccount of entry e
Attachable(f, e) ==
    /\ f.Subject.name = e.service_account
    /\ f.Subject.kind = "ServiceAccount" \/ f.Subject.kind = "Group"
    /\ f.Subject.namespace = None \/ f.Subject.namespace = Some(e.namespace)

\* C16: the RBAC findings attached to a report are exactly the provider's
\* findings whose subject has the name of the resolved ServiceAccount, is a
\* ServiceAccount or a Group and has no namespace or the report's namespace,
\* in the provider's order; a finding for a User, another name or another
\* namespace is never attached.
C16_AttachedFindings ==
    CorrelationReturned =>
        \A i \in 1..Len(result.value) :
            LET e == result.value[i]
            IN  OrSeq(e.rbac_findings)
                    = MapSeq(SelectSeq(FindingsProvided, LAMBDA f : Attachable(f, e)),
                             LAMBDA f : f.Finding)

\* of four findings the two about the ServiceAccount in prod were attached,
\* the User's and the one in dev were not
C16_Witness ==
    /\ CorrelationReturned
    /\ FindingsProvided = <<SaProdHigh, UserCritical, GroupCritical, SaDevMedium>>
    /\ \E i \in 1..Len(result.value) :
           /\ result.value[i].namespace = "prod"
           /\ result.value[i].service_account = "web-sa"
           /\ result.value[i].rbac_findings = Some(<<SaProdHigh.Finding, GroupCritical.Finding>>)

(***************************************************************************)
(* The severities                                                          *)
(***************************************************************************)
Ordinal == [LOW |-> 1, MEDIUM |-> 2, HIGH |-> 3, CRITICAL |-> 4]

\* the tier of the greatest ordinal among present, LOW when there is none
Highest(present) ==
    IF present = {} THEN "LOW"
    ELSE CHOOSE t \in present : \A u \in present : Ordinal[u] <= Ordinal[t]

\* the count a summary holds for a tier
TierCount(summary) ==
    [LOW |-> summary.low, MEDIUM |-> summary.medium,
     HIGH |-> summary.high, CRITICAL |-> summary.critical]

RECURSIVE KeepLast(_, _, _)
\* the scan from LOW up to CRITICAL that keeps the last tier with a count
KeepLast(summary, i, kept) ==
    IF i > Len(RISK_ORDER) THEN kept
    ELSE KeepLast(summary, i + 1,
                  IF TierCount(summary)[RISK_ORDER[i]] > 0 THEN RISK_ORDER[i] ELSE kept)

\* C17: _max_severity returns the highest tier of LOW < MEDIUM < HIGH <
\* CRITICAL whose count is above zero, LOW when the four counts are zero; the
\* unknown count has no effect; the scan from CRITICAL down that stops at
\* the first hit agrees with the scan from LOW up that keeps the last hit.
C17_HighestCountedTier ==
    call.op = "_max_severity" =>
        /\ result.value = Highest({ t \in Tiers : TierCount(call.summary)[t] > 0 })
        /\ result.value = KeepLast(call.summary, 1, "LOW")
        /\ \A k \in 0..MaxCount :
               _max_severity([call.summary EXCEPT !.unknown = k]) = result.value

\* low, high and unknown counted, critical not: HIGH
C17_Witness ==
    /\ call.op = "_max_severity"
    /\ call.summary = [critical |-> 0, high |-> 1, medium |-> 0, low |-> 1, unknown |-> 1]
    /\ result.value = "HIGH"

\* the tiers that some finding of fs has for severity, whatever the case
TiersOf(fs) == { t \in Tiers : \E i \in 1..Len(fs) : lower(fs[i].Severity) = lower(t) }

SeveritiesOf(fs) == { fs[i].Severity : i \in 1..Len(fs) }

\* C18: _max_rbac_severity returns the highest tier that is, ignoring case,
\* the severity of some finding, LOW for no finding or no such tier; lists
\* with the same severities in another order or number give the same result.
C18_HighestFindingTier ==
    call.op = "_max_rbac_severity" =>
        /\ result.value = Highest(TiersOf(call.findings))
        /\ \A fs \in FindingLists :
               SeveritiesOf(fs) = SeveritiesOf(call.findings) =>
                   _max_rbac_severity(fs) = result.value

\* "High" after "critical", written in mixed case: CRITICAL
C18_Witness ==
    /\ call.op = "_max_rbac_severity"
    /\ MapSeq(call.findings, LAMBDA f : f.Severity) = <<"critical", "High">>
    /\ result.value = "CRITICAL"

Greater(a, b) == IF Ordinal[a] >= Ordinal[b] THEN a ELSE b

If(cond, tip) == IF cond THEN <<tip>> ELSE <<>>

\* C20: generate_remediation_tip returns, in this order, the update-image
\* tip iff the critical count is above zero, the restrict-ServiceAccount tip
\* iff some finding has severity CRITICAL or HIGH in any case, the fallback
\* tip iff neither was added, and last the prioritize tip iff the risk is
\* CRITICAL; critical=1 without findings gives the update-image tip alone,
\* followed by the prioritize tip when the risk is CRITICAL.
C20_TipsInFixedOrder ==
    call.op = "generate_remediation_tip" =>
        LET update == call.summary.critical > 0
            restrict == TiersOf(call.findings) \cap {"CRITICAL", "HIGH"} # {}
        IN  /\ result.value = If(update, UpdateImageTip) \o If(restrict, RestrictTip)
                                  \o If(~update /\ ~restrict, NoIssuesTip)
                                  \o If(call.risk = "CRITICAL", PrioritizeTip)
            /\ (call.summary.critical = 1 /\ call.findings = <<>>) =>
                   result.value = <<UpdateImageTip>> \o If(call.risk = "CRITICAL", PrioritizeTip)

\* one critical vulnerability, no finding, risk CRITICAL: update, then prioritize
C20_Witness ==
    /\ call.op = "generate_remediation_tip"
    /\ call.summary.critical = 1 /\ call.findings = <<>> /\ call.risk = "CRITICAL"
    /\ result.value = <<UpdateImageTip, PrioritizeTip>>

(***************************************************************************)
(* correlate_risks from end to end                                         *)
(***************************************************************************)
\* one report for "deployment-web" in prod with two critical vulnerabilities,
\* its ServiceAccount web-sa, and one finding of severity HIGH about web-sa
EndToEnd ==
    /\ CorrelationReturned
    /\ Len(ReportsRead) = 1
    /\ ReportsRead[1].resource = "deployment-web"
    /\ ReportsRead[1].namespace = "prod"
    /\ ReportsRead[1].summary.critical = 2
    /\ ResolvedFor(ReportsRead[1]) = Some("web-sa")
    /\ FindingsProvided = <<WebSaHigh>>

\* C21 as stated: in the end-to-end scenario correlate_risks returns one
\* report with overall_risk CRITICAL and exactly two tips, the update-image
\* tip and then the prioritize-mitigation tip.
C21_TwoTips ==
    EndToEnd =>
        /\ Len(result.value) = 1
        /\ result.value[1].overall_risk = "CRITICAL"
        /\ result.value[1].remediation_tip = <<UpdateImageTip, PrioritizeTip>>

\* C21: in the end-to-end scenario correlate_risks returns one report with
\* overall_risk CRITICAL, the HIGH finding attached, and three tips: the
\* update-image tip, the restrict-ServiceAccount tip for the HIGH finding,
\* then the prioritize-mitigation tip.
C21_ThreeTips ==
    EndToEnd =>
        /\ Len(result.value) = 1
        /\ result.value[1].service_account = "web-sa"
        /\ result.value[1].overall_risk = "CRITICAL"
        /\ result.value[1].rbac_findings = Some(<<WebSaHigh.Finding>>)
        /\ result.value[1].remediation_tip = <<UpdateImageTip, RestrictTip, PrioritizeTip>>

\* the scenario was run and gave the three tips
C21_Witness ==
    /\ EndToEnd
    /\ result.value[1].trivy_summary.critical = 2
    /\ Len(result.value[1].remediation_tip) = 3

\* C22: in every report correlate_risks returns, rbac_findings is null
\* exactly when no finding of the provider passed the filter for the report,
\* and otherwise a non-empty list; it is never the empty list.
C22_NullNotEmpty ==
    CorrelationReturned =>
        \A i \in 1..Len(result.value) :
            LET e == result.value[i]
                passed == { k \in 1..Len(FindingsProvided) : Attachable(FindingsProvided[k], e) }
            IN  /\ e.rbac_findings # Some(<<>>)
                /\ e.rbac_findings = None <=> passed = {}
                /\ passed # {} => Len(Val(e.rbac_findings)) = Cardinality(passed)

\* findings were provided, none about the ServiceAccount of the report, and
\* the report came back with null
C22_Witness ==
    /\ CorrelationReturned
    /\ FindingsProvided = <<UserCritical, OtherHigh>>
    /\ \E i \in 1..Len(result.value) :
           /\ result.value[i].service_account = "web-sa"
           /\ result.value[i].rbac_findings = None

\* the lookup of the ServiceAccount of a report returns a name
Resolvable(report) ==
    LET found == get_service_account_for_resource(report.namespace, report.resource,
                                                  call.list_fails)
    IN  found.status = "ok" /\ TruthyStr(found.value)

\* C23: when one vulnerability report cannot be processed (no ServiceAccount,
\* a resource name without "-", a failing listing) correlate_risks does not
\* abort: it returns, with an entry for every other report of the call.
C23_NoAbort ==
    call.op = "correlate_risks" =>
        /\ result.status = "ok"
        /\ \A j \in 1..Len(ReportsRead) :
               Resolvable(ReportsRead[j]) =>
                   \E i \in 1..Len(result.value) : Key(result.value[i]) = Key(ReportsRead[j])

TipsOf(e) == { e.remediation_tip[k] : k \in 1..Len(e.remediation_tip) }

MinOrdinal ==
    LET named == { t \in DOMAIN SEVERITY_MAP : lower(t) = lower(call.min_severity) }
    IN  IF named = {} THEN 0 ELSE SEVERITY_MAP[CHOOSE t \in named : TRUE]

\* the raw vulnerability of severity v reaches the ordinal min
Retained(v, min) ==
    LET l == lower(v)
    IN  \E t \in DOMAIN SEVERITY_MAP : lower(t) = l /\ SEVERITY_MAP[t] >= min

\* the VulnerabilityReports the call lists
ItemsListed ==
    IF call.namespace \in {None, Some("")} THEN trivy_reports
    ELSE SelectSeq(trivy_reports, LAMBDA item : item.namespace = call.namespace)

NumberOf(r, sev) == Cardinality({ k \in 1..Len(r.vulnerabilities) : r.vulnerabilities[k] = sev })

\* C29: every report get_trivy_reports returns has a finding; the severity
\* of every finding is one of UNKNOWN, LOW, MEDIUM, HIGH, CRITICAL of ordinal
\* at least that of min_severity (all of them for an unrecognized
\* min_severity); each count of the summary is the number of findings of its
\* severity and the five counts sum to the number of findings; a raw report
\* without a retained finding is dropped; with min_severity LOW the unknown
\* count is 0 and one of low, medium, high, critical is above zero.
C29_ReportsHaveFindings ==
    call.op = "get_trivy_reports" =>
        LET min == MinOrdinal
            kept == SelectSeq(ItemsListed, LAMBDA item :
                        \E k \in 1..Len(item.vulnerabilities) :
                            Retained(item.vulnerabilities[k], min))
        IN  /\ MapSeq(result.value, LAMBDA r : <<r.namespace, r.resource>>)
                   = MapSeq(kept, LAMBDA item : <<Val(item.namespace), item.name>>)
            /\ \A i \in 1..Len(result.value) :
                   LET r == result.value[i]
                       c == r.summary
                   IN  /\ Len(r.vulnerabilities) >= 1
                       /\ Len(r.vulnerabilities)
                              = Cardinality({ k \in 1..Len(kept[i].vulnerabilities) :
                                                  Retained(kept[i].vulnerabilities[k], min) })
                       /\ \A k \in 1..Len(r.vulnerabilities) :
                              /\ r.vulnerabilities[k] \in DOMAIN SEVERITY_MAP
                              /\ SEVERITY_MAP[r.vulnerabilities[k]] >= min
                       /\ c.critical = NumberOf(r, "CRITICAL")
                       /\ c.high = NumberOf(r, "HIGH")
                       /\ c.medium = NumberOf(r, "MEDIUM")
                       /\ c.low = NumberOf(r, "LOW")
                       /\ c.unknown = NumberOf(r, "UNKNOWN")
                       /\ c.critical + c.high + c.medium + c.low + c.unknown
                              = Len(r.vulnerabilities)
                       /\ call.min_severity = "LOW" =>
                              /\ c.unknown = 0
                              /\ c.critical + c.high + c.medium + c.low > 0

\* with min_severity "High" a report with a high and a low vulnerability came
\* back with the high one alone, and a report listed with it was dropped
C29_Witness ==
    /\ call.op = "get_trivy_reports"
    /\ call.min_severity = "High"
    /\ Len(ItemsListed) = 2
    /\ Len(result.value) = 1
    /\ result.value[1].vulnerabilities = <<"HIGH">>
    /\ \E k \in 1..Len(ItemsListed) : ItemsListed[k].vulnerabilities = <<"HIGH", "low">>

(***************************************************************************)
(* correlate_risks when the RBAC tool fails                                *)
(***************************************************************************)
\* C24: run_rbac_analysis raises for no failure of the tool (time-out,
\* non-zero exit, tool missing, output that is no findings JSON) and returns
\* the empty list; correlate_risks then returns a report for every workload
\* whose ServiceAccount resolves, each with rbac_findings null and an
\* overall_risk that is the severity of its vulnerabilities alone.
C24_ToolFailureTolerated ==
    (call.op = "correlate_risks" /\ call.tool_fails) =>
        /\ result.status = "ok"
        /\ Len(result.value)
               = Cardinality({ j \in 1..Len(ReportsRead) : Resolvable(ReportsRead[j]) })
        /\ \A i \in 1..Len(result.value) :
               /\ result.value[i].rbac_findings = None
               /\ result.value[i].overall_risk
                      = Highest({ t \in Tiers : TierCount(result.value[i].trivy_summary)[t] > 0 })

(***************************************************************************)
(* The ids of get_all_bindings                                             *)
(***************************************************************************)
\* C27: in a get_all_bindings result of length n the ids are pairwise
\* distinct and are 0..n-1 in list order, every ClusterRoleBinding placed and
\* numbered before every RoleBinding, also when one of the two listings
\* failed and was taken as empty.
C27_IdsCountUp ==
    BindingsCalled =>
        LET n == Len(result.value)
        IN  /\ \A i \in 1..n : result.value[i].id = i - 1
            /\ \A i, j \in 1..n : i # j => result.value[i].id # result.value[j].id
            /\ { result.value[i].id : i \in 1..n } = 0..(n - 1)
            /\ \A i, j \in 1..n :
                   ( /\ result.value[i].kind = "ClusterRoleBinding"
                     /\ result.value[j].kind = "RoleBinding" ) =>
                       /\ i < j
                       /\ result.value[i].id < result.value[j].id

\* the ClusterRoleBindings could not be listed and the two RoleBindings came
\* back numbered 0 and 1
C27_Witness ==
    /\ call.op = "get_all_bindings"
    /\ Len(cluster_role_bindings) = 1 /\ Len(role_bindings) = 2
    /\ call.crb_forbidden /\ ~call.rb_forbidden
    /\ Len(result.value) = 2
    /\ result.value[1].kind = "RoleBinding" /\ result.value[1].id = 0
    /\ result.value[2].kind = "RoleBinding" /\ result.value[2].id = 1

(***************************************************************************)
(* The batch policy-rules handlers                                         *)
(***************************************************************************)
BatchCalled == call.op \in {"get_batch_policy_rules", "get_batch_policy_rules_post"}

Requested == { call.subjects[i] : i \in 1..Len(call.subjects) }

\* the lookup of the rules of s, asked for s alone, raises
LookupRaises(s) == fetch_rbac_policy_rules(s).status # "ok"

\* C25: the batch policy-rules operation, GET and POST alike, returns for
\* every list of subjects a map whose keys are exactly the requested names;
\* a subject whose lookup raised maps to the empty list, a subject whose
\* lookup succeeded maps to the result of the single lookup, and the failure
\* of one subject changes the value of no other.
C25_BatchKeepsGoing ==
    BatchCalled =>
        /\ result.status = "ok"
        /\ DOMAIN result.value = Requested
        /\ \A s \in Requested :
               /\ LookupRaises(s) => result.value[s] = <<>>
               /\ ~LookupRaises(s) => result.value[s] = fetch_rbac_policy_rules(s).value

\* the lookup of the first subject raised and the second subject of the POST
\* request still has its two rules
C25_Witness ==
    /\ call.op = "get_batch_policy_rules_post"
    /\ call.subjects = <<"alice", "bob">>
    /\ LookupRaises("alice")
    /\ result.value["alice"] = <<>>
    /\ Len(result.value["bob"]) = 2
(***************************************************************************)
(* State shared between requests                                           *)
(***************************************************************************)
\* the answer of the request when no other request runs
Alone(r) == answer(r, FALSE)

\* C26: no request mutates state shared with other requests: of two requests
\* running interleaved neither writes a process-wide variable or a fixed-path
\* file that the other reads or writes, and the result of each finished
\* request equals its result when run alone.
C26_NoSharedState ==
    \A a, b \in DOMAIN requests :
        a # b =>
            /\ requests[a].wrote \cap (requests[b].wrote \cup requests[b].read) = {}
            /\ requests[a].pc = "done" => requests[a].result = Alone(requests[a])

\* one request's result differs from its result alone
C26_ResultDiffers ==
    \E a \in DOMAIN requests :
        requests[a].pc = "done" /\ requests[a].result # Alone(requests[a])

(***************************************************************************)
(* handle_scan_request                                                     *)
(***************************************************************************)
Handled == call.op = "handle_scan_request"

NamespaceMissing == ~TruthyStr(Getattr(call.meta, "namespace", None))

RaisedBeforeStatus ==
    /\ patch_status = NoPatch
    /\ jobs = <<>>

Phase(p) == patch_status.phase = Some(p)

\* the text of the error the try block raised, none when it raised nothing
ErrorText ==
    IF jobs # <<>> THEN jobs[1].error
    ELSE create_scan_job(call.meta.name, Val(call.meta.namespace), call.spec, call.env.suffix).value

\* C30 as stated: with the namespace missing handle_scan_request raises a
\* temporary error before any status field is set and before any Job is
\* created; otherwise it attempts exactly one Job creation and returns with
\* phase Pending and message "Scan job submitted" if the creation succeeded
\* and with phase Failed and the error text as message if it raised; it never
\* returns with phase Running and startedAt is set in both outcomes.
C30_OneAttempt ==
    Handled =>
        IF NamespaceMissing
        THEN result.status = "TemporaryError" /\ RaisedBeforeStatus
        ELSE /\ result.status = "ok"
             /\ Len(jobs) = 1
             /\ jobs[1].error = "" =>
                    Phase("Pending") /\ patch_status.message = Some("Scan job submitted")
             /\ jobs[1].error # "" =>
                    Phase("Failed") /\ patch_status.message = Some(jobs[1].error)
             /\ ~Phase("Running")
             /\ ~IsNone(patch_status.startedAt)

\* C30: with the namespace missing handle_scan_request raises a temporary
\* error before any status field is set and before any Job is created; with
\* a namespace and no in-cluster configuration it raises before any status
\* field is set too; otherwise it returns, having attempted at most one Job
\* creation, and exactly one when spec has source.path: phase Pending and
\* message "Scan job submitted" if the creation succeeded, phase Failed with
\* the error text as message if the creation raised or the Job could not be
\* built. It never returns with phase Running, and startedAt is set whenever
\* it returns.
C30_AtMostOneAttempt ==
    Handled =>
        IF NamespaceMissing
        THEN result.status = "TemporaryError" /\ RaisedBeforeStatus
        ELSE IF ~call.env.in_cluster
        THEN result.status = "ConfigException" /\ RaisedBeforeStatus
        ELSE /\ result.status = "ok"
             /\ Len(jobs) <= 1
             /\ Len(jobs) = 1 <=>
                    ("source" \in DOMAIN call.spec /\ "path" \in DOMAIN call.spec.source)
             /\ IF jobs # <<>> /\ jobs[1].error = ""
                THEN Phase("Pending") /\ patch_status.message = Some("Scan job submitted")
                ELSE Phase("Failed") /\ patch_status.message = Some(ErrorText)
             /\ ~Phase("Running")
             /\ patch_status.startedAt = Some(call.env.now \o "Z")

\* the API server refused the one Job the handler tried to create
C30_Witness ==
    /\ Handled
    /\ result.status = "ok"
    /\ Len(jobs) = 1
    /\ jobs[1].error = "(409) Reason: Conflict"
    /\ jobs[1].body.name = "scan-job-scan-b-3f2a9c"
    /\ jobs[1].body.env.RENDER_TYPE = "helm"
    /\ Phase("Failed")
    /\ patch_status.message = Some("(409) Reason: Conflict")
====
